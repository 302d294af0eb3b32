-------------------------- MODULE ReleaseStoreProofs --------------------------
(* What holds of ReleaseStore for every value of its constants. *)
EXTENDS ReleaseStore, TLAPS

(***************************************************************************)
(* The facts about contents the steps rest on.                             *)
(***************************************************************************)
LEMMA Contents ==
    /\ Absent \in Content /\ Empty \in Content /\ Torn \in Content
    /\ Releases \subseteq Content
    /\ \A c \in Content : PartlyRemoved(c) \subseteq Content
    /\ \A c \in Content : PartlyCopied(c) \subseteq Content
    /\ \A c \in Content : Restarted(c) \in Content
    /\ \A c \in Content : HasFiles(c) => c \in Releases \cup {Torn}
BY DEF Content, PartlyRemoved, PartlyCopied, Restarted, HasFiles

LEMMA NewJobs ==
    ASSUME NEW op \in Ops, NEW r \in Releases \cup {Absent}, NEW c \in Content
    PROVE  NewJob(op, r, c) \in Job
BY DEF NewJob, Job

LEMMA FirstSteps == \A op \in Ops : FirstStep(op) \in Steps
BY DEF FirstStep, Ops, Imports, Archives, Deploys, Steps

\* The branch targets are steps.
LEMMA Branches ==
    ASSUME NEW w \in Workers
    PROVE  /\ AfterImport(w) \in {"preflight", "answer"}
           /\ AfterImportError(w) \in {"drop_unpacked", "answer"}
           /\ AfterRaise(w) \in {"fail", "answer"}
BY DEF AfterImport, AfterImportError, AfterRaise

\* Every update of a request that an action makes leaves it a request.
LEMMA JobAnswers ==
    ASSUME NEW w \in Workers, job \in [Workers -> Job]
    PROVE  [job EXCEPT ![w].ok = FALSE] \in [Workers -> Job]
BY DEF Job

LEMMA JobHit ==
    ASSUME NEW w \in Workers, job \in [Workers -> Job]
    PROVE  [job EXCEPT ![w].ok = FALSE, ![w].hits = @ + 1] \in [Workers -> Job]
<1>1. ASSUME NEW n \in Nat
      PROVE  [job EXCEPT ![w].ok = FALSE, ![w].hits = n] \in [Workers -> Job]
    BY <1>1, ZenonT(30) DEF Job
<1>2. job[w].hits + 1 \in Nat
    BY DEF Job
<1>3. QED
    BY <1>1, <1>2

LEMMA JobMoved ==
    ASSUME NEW w \in Workers, job \in [Workers -> Job], NEW b \in BOOLEAN
    PROVE  [job EXCEPT ![w].moved = b] \in [Workers -> Job]
BY DEF Job

LEMMA JobRollsBack ==
    ASSUME NEW w \in Workers, job \in [Workers -> Job]
    PROVE  /\ [job EXCEPT ![w].nested = TRUE] \in [Workers -> Job]
           /\ [job EXCEPT ![w].from = "previous"] \in [Workers -> Job]
BY DEF Job

LEMMA JobJournal ==
    ASSUME NEW w \in Workers, job \in [Workers -> Job],
           NEW s \in {"completed", "failed"}
    PROVE  [job EXCEPT ![w].journal = s] \in [Workers -> Job]
BY DEF Job

LEMMA JobStarts ==
    ASSUME NEW w \in Workers, job \in [Workers -> Job],
           NEW b \in BOOLEAN, NEW c \in BOOLEAN
    PROVE  [job EXCEPT ![w].had = b, ![w].journal = "running", ![w].ok = c]
               \in [Workers -> Job]
<1>0. ASSUME NEW f \in [Workers -> Job]
      PROVE  [f EXCEPT ![w].ok = c] \in [Workers -> Job]
    BY <1>0 DEF Job
<1>1. [job EXCEPT ![w].had = b, ![w].journal = "running"] \in [Workers -> Job]
    BY ZenonT(30) DEF Job
<1>2. [[job EXCEPT ![w].had = b, ![w].journal = "running"] EXCEPT ![w].ok = c]
          \in [Workers -> Job]
    BY <1>0, <1>1, Zenon
<1>3. [[job EXCEPT ![w].had = b, ![w].journal = "running"] EXCEPT ![w].ok = c]
          = [job EXCEPT ![w].had = b, ![w].journal = "running", ![w].ok = c]
    BY ZenonT(30) DEF Job
<1>4. QED
    BY <1>2, <1>3, Zenon

(***************************************************************************)
(* Type correctness.  TypeOK alone is not inductive: a step that looks up  *)
(* the history needs the request to name a release, which a rollback does  *)
(* not.                                                                    *)
(***************************************************************************)
LookupSteps == {"unpack", "check_source", "drop_history", "fill_history",
                "drop_unpacked", "preflight", "stage"}

NamesRelease == \A w \in Workers : pc[w] \in LookupSteps => job[w].rel \in Releases

Typed == TypeOK /\ NamesRelease

LEMMA TypeInit == Init => Typed
<1> SUFFICES ASSUME Init PROVE Typed
    OBVIOUS
<1>1. NoJob \in Job
    BY NewJobs, Contents DEF NoJob, Ops
<1>2. QED
    BY <1>1, Contents DEF Init, TypeOK, Steps, Typed, NamesRelease, LookupSteps

LEMMA TypeNext == Typed /\ [Next]_vars => TypeOK'
<1> SUFFICES ASSUME TypeOK, NamesRelease, [Next]_vars PROVE TypeOK'
    BY DEF Typed
<1> USE Contents
<1>1. ASSUME NEW w \in Workers, Accept(w) PROVE TypeOK'
  <2>1. PICK op \in Ops :
            /\ \E r \in IF op = "rollback" THEN {Absent} ELSE Releases :
                  job' = [job EXCEPT ![w] = NewJob(op, r, current)]
            /\ Goto(w, FirstStep(op))
      BY <1>1 DEF Accept
  <2>2. job' \in [Workers -> Job]
    <3>1. PICK r \in Releases \cup {Absent} :
              job' = [job EXCEPT ![w] = NewJob(op, r, current)]
        BY <2>1
    <3>2. NewJob(op, r, current) \in Job
        BY NewJobs DEF TypeOK
    <3>3. QED
        BY <3>1, <3>2 DEF TypeOK
  <2>3. QED
      BY <1>1, <2>1, <2>2, FirstSteps DEF Accept, TypeOK, Goto, dirs, budget, observers
<1>2. ASSUME NEW w \in Workers, Reply(w) PROVE TypeOK'
  <2>1. NoJob \in Job
      BY NewJobs DEF NoJob, Ops
  <2>2. QED
      BY <1>2, <2>1 DEF Reply, TypeOK, Goto, Steps, dirs, budget, observers
<1>3. ASSUME NEW w \in Workers, Import(w) PROVE TypeOK'
  <2> USE <1>3, Branches DEF TypeOK, Goto, Steps, dirs, budget, observers
  <2>1. CASE Unpack(w) BY <2>1 DEF Unpack
  <2>2. CASE CheckSource(w)
    <3>1. job' \in [Workers -> Job]
        BY <2>2, JobHit DEF CheckSource
    <3>2. QED
        BY <2>2, <3>1 DEF CheckSource
  <2>3. CASE DropHistory(w) BY <2>3 DEF DropHistory
  <2>4. CASE FillHistory(w) BY <2>4 DEF FillHistory, Content
  <2>5. CASE DropUnpacked(w) BY <2>5 DEF DropUnpacked
  <2>6. QED BY <2>1, <2>2, <2>3, <2>4, <2>5 DEF Import
<1>4. ASSUME NEW w \in Workers, Deploy(w) PROVE TypeOK'
  <2> USE <1>4 DEF TypeOK, Goto, Errs, Steps, dirs, budget, observers
  <2>1. CASE Preflight(w)
    <3>1. job' \in [Workers -> Job]
      <4>1. \/ job' = [job EXCEPT ![w].ok = FALSE]
            \/ job' = [job EXCEPT ![w].had = HasFiles(current),
                                   ![w].journal = "running",
                                   ![w].ok = Complete(history[job[w].rel])]
          BY <2>1 DEF Preflight
      <4>2. HasFiles(current) \in BOOLEAN /\ Complete(history[job[w].rel]) \in BOOLEAN
          BY DEF HasFiles, Complete
      <4>3. [job EXCEPT ![w].had = HasFiles(current), ![w].journal = "running",
                        ![w].ok = Complete(history[job[w].rel])] \in [Workers -> Job]
          BY <4>2, JobStarts
      <4>4. [job EXCEPT ![w].ok = FALSE] \in [Workers -> Job]
          BY JobAnswers
      <4>5. QED
          BY <4>1, <4>3, <4>4, Zenon
    <3>2. QED
        BY <2>1, <3>1 DEF Preflight, HasFiles, Complete
  <2>2. CASE Stage(w)
    <3>1. job' \in [Workers -> Job]
        BY <2>2, JobAnswers DEF Stage
    <3>2. QED
        BY <2>2, <3>1 DEF Stage, NamesRelease, LookupSteps
  <2>3. CASE Backup(w)
    <3>1. job' \in [Workers -> Job]
        BY <2>3, JobAnswers DEF Backup
    <3>2. QED
        BY <2>3, <3>1 DEF Backup
  <2>4. CASE CheckLive(w)
    <3>1. job' \in [Workers -> Job]
      <4>1. \/ job' = [job EXCEPT ![w].journal = "completed"]
            \/ job' = [job EXCEPT ![w].ok = FALSE]
          BY <2>4 DEF CheckLive
      <4>2. QED
          BY <4>1, JobAnswers, JobJournal
    <3>2. job[w].before \in Content
        BY DEF Job
    <3>3. QED
        BY <2>4, <3>1, <3>2 DEF CheckLive, Complete
  <2>5. CASE RestoreByRollback(w)
    <3>1. job' \in [Workers -> Job]
        BY <2>5, JobRollsBack DEF RestoreByRollback
    <3>2. QED
        BY <2>5, <3>1 DEF RestoreByRollback
  <2>6. CASE ClearLive(w) BY <2>6 DEF ClearLive
  <2>7. CASE Fail(w)
    <3>1. job' \in [Workers -> Job]
        BY <2>7, JobJournal DEF Fail
    <3>2. QED
        BY <2>7, <3>1 DEF Fail
  <2>8. CASE DropStage(w) BY <2>8 DEF DropStage
  <2>9. QED BY <2>1, <2>2, <2>3, <2>4, <2>5, <2>6, <2>7, <2>8 DEF Deploy
<1>5. ASSUME NEW w \in Workers, Replace(w) PROVE TypeOK'
  <2> USE <1>5, Branches DEF TypeOK, Goto, Errs, Steps, dirs, budget, observers
  <2>1. CASE Incoming(w)
    <3>1. job' \in [Workers -> Job]
      <4>1. \/ job' = [job EXCEPT ![w].moved = FALSE]
            \/ job' = [job EXCEPT ![w].ok = FALSE]
          BY <2>1 DEF Incoming
      <4>2. QED
          BY <4>1, JobAnswers, JobMoved
    <3>2. QED
        BY <2>1, <3>1 DEF Incoming, Source
  <2>2. CASE Retire(w)
    <3>1. job' \in [Workers -> Job]
        BY <2>2, JobMoved DEF Retire
    <3>2. QED
        BY <2>2, <3>1 DEF Retire
  <2>3. CASE Publish(w) BY <2>3 DEF Publish
  <2>4. CASE DropRetired(w) BY <2>4 DEF DropRetired
  <2>5. CASE UndoDrop(w) BY <2>5 DEF UndoDrop
  <2>6. CASE UndoRestore(w)
    <3>1. job' \in [Workers -> Job]
        BY <2>6, JobAnswers DEF UndoRestore
    <3>2. QED
        BY <2>6, <3>1 DEF UndoRestore
  <2>7. QED BY <2>1, <2>2, <2>3, <2>4, <2>5, <2>6 DEF Replace
<1>6. ASSUME NEW w \in Workers, Rollback(w) PROVE TypeOK'
  <2> USE <1>6 DEF TypeOK, Goto, Errs, Steps, dirs, budget, observers
  <2>1. CASE RbCheck(w)
    <3>1. job' \in [Workers -> Job]
      <4>1. \/ job' = [job EXCEPT ![w].from = "previous"]
            \/ job' = [job EXCEPT ![w].ok = FALSE]
          BY <2>1 DEF RbCheck
      <4>2. QED
          BY <4>1, JobAnswers, JobRollsBack
    <3>2. QED
        BY <2>1, <3>1 DEF RbCheck
  <2>2. CASE RbArchive(w) BY <2>2 DEF RbArchive
  <2>3. CASE RbDone(w)
    <3>1. job' \in [Workers -> Job]
        BY <2>3, JobJournal DEF RbDone
    <3>2. QED
        BY <2>3, <3>1 DEF RbDone
  <2>4. QED BY <2>1, <2>2, <2>3 DEF Rollback
<1>7. ASSUME NEW w \in Workers, Prune(w) PROVE TypeOK'
    BY <1>7 DEF Prune, TypeOK, Goto, Steps, dirs, budget, observers
<1>8. ASSUME NEW w \in Workers, Fault(w) PROVE TypeOK'
  <2>1. PICK step \in Steps : Hit(w, step)
      BY <1>8, Branches DEF Fault, FaultImport, FaultStage, FaultBackup, FaultIncoming,
         FaultSwitch, FaultUndo, FaultCheckLive, FaultClearLive, FaultRollback,
         FaultDropStage, FaultPrune, Steps
  <2>2. /\ pc' \in [Workers -> Steps] /\ job' \in [Workers -> Job]
        /\ faults' \in Nat /\ crashes' \in Nat
        /\ established' \in BOOLEAN /\ prior' \in Content
    <3>1. job' \in [Workers -> Job]
        BY <2>1, JobHit, Zenon DEF Hit, TypeOK
    <3>2. QED
        BY <2>1, <3>1 DEF Hit, Goto, TypeOK, observers
  <2> USE <2>2 DEF TypeOK, dirs
  <2>3. CASE FaultImport(w) BY <2>3 DEF FaultImport
  <2>4. CASE FaultStage(w) BY <2>4 DEF FaultStage
  <2>5. CASE FaultBackup(w) BY <2>5 DEF FaultBackup
  <2>6. CASE FaultIncoming(w) BY <2>6 DEF FaultIncoming
  <2>7. CASE FaultSwitch(w) BY <2>7 DEF FaultSwitch
  <2>8. CASE FaultUndo(w) BY <2>8 DEF FaultUndo
  <2>9. CASE FaultCheckLive(w) BY <2>9 DEF FaultCheckLive
  <2>10. CASE FaultClearLive(w) BY <2>10 DEF FaultClearLive
  <2>11. CASE FaultRollback(w) BY <2>11 DEF FaultRollback
  <2>12. CASE FaultDropStage(w) BY <2>12 DEF FaultDropStage
  <2>13. CASE FaultPrune(w) BY <2>13 DEF FaultPrune
  <2>14. QED
      BY <1>8, <2>3, <2>4, <2>5, <2>6, <2>7, <2>8, <2>9, <2>10, <2>11, <2>12, <2>13
      DEF Fault
<1>9. ASSUME Crash PROVE TypeOK'
  <2>1. current' \in Content /\ previous' \in Content
    <3>1. PICK c \in LiveLeft : current' = Restarted(c)
        BY <1>9 DEF Crash
    <3>2. c \in Content
        BY <3>1 DEF LiveLeft, TypeOK
    <3>3. PICK d \in IF BackingUp THEN PartlyCopied(previous) ELSE {previous} :
              previous' = Restarted(d)
        BY <1>9 DEF Crash
    <3>4. d \in Content
        BY <3>3 DEF TypeOK
    <3>5. QED
        BY <3>1, <3>2, <3>3, <3>4
  <2>2. incoming' \in Content /\ retired' \in Content
      BY <1>9 DEF Crash, TypeOK, Left
  <2>3. evidence' \subseteq Releases \cup {Torn}
      BY <1>9 DEF Crash, TypeOK
  <2>4. NoJob \in Job
      BY NewJobs DEF NoJob, Ops
  <2>5. pc' \in [Workers -> Steps] /\ job' \in [Workers -> Job]
      BY <1>9, <2>4 DEF Crash, Steps
  <2>6. QED
      BY <1>9, <2>1, <2>2, <2>3, <2>5 DEF Crash, TypeOK, observers
<1>10. CASE UNCHANGED vars
    BY <1>10 DEF TypeOK, vars, dirs, budget, observers
<1>11. QED
    BY <1>1, <1>2, <1>3, <1>4, <1>5, <1>6, <1>7, <1>8, <1>9, <1>10 DEF Next

LEMMA NamesNext == Typed /\ [Next]_vars => NamesRelease'
<1> SUFFICES ASSUME Typed, [Next]_vars, NEW v \in Workers, pc'[v] \in LookupSteps
             PROVE  job'[v].rel \in Releases
    BY DEF NamesRelease
<1> USE DEF Typed, TypeOK, NamesRelease, LookupSteps
<1>1. ASSUME NEW w \in Workers, Accept(w) PROVE job'[v].rel \in Releases
    BY <1>1 DEF Accept, Goto, FirstStep, NewJob
<1>2. ASSUME NEW w \in Workers, Reply(w) PROVE job'[v].rel \in Releases
    BY <1>2 DEF Reply, Goto
<1>3. ASSUME NEW w \in Workers, job'[v].rel = job[v].rel,
             pc' = [pc EXCEPT ![w] = pc'[w]],
             pc'[w] \in LookupSteps => pc[w] \in LookupSteps
      PROVE  job'[v].rel \in Releases
    BY <1>3
<1>4. ASSUME NEW w \in Workers, Import(w) PROVE job'[v].rel \in Releases
  <2> USE <1>3, Branches DEF Goto
  <2>1. CASE Unpack(w) BY <2>1 DEF Unpack
  <2>2. CASE CheckSource(w)
    <3>1. [job EXCEPT ![w].ok = FALSE, ![w].hits = @ + 1][v].rel = job[v].rel
        BY ZenonT(30) DEF Job
    <3>2. QED
        BY <2>2, <3>1 DEF CheckSource
  <2>3. CASE DropHistory(w) BY <2>3 DEF DropHistory
  <2>4. CASE FillHistory(w) BY <2>4 DEF FillHistory
  <2>5. CASE DropUnpacked(w) BY <2>5 DEF DropUnpacked
  <2>6. QED BY <1>4, <2>1, <2>2, <2>3, <2>4, <2>5 DEF Import
<1>5. ASSUME NEW w \in Workers, Deploy(w) PROVE job'[v].rel \in Releases
  <2> USE <1>3 DEF Goto, Errs
  <2>1. CASE Preflight(w)
    <3>1. \A b, c : [job EXCEPT ![w].had = b, ![w].journal = "running",
                              ![w].ok = c][v].rel = job[v].rel
        BY ZenonT(30) DEF Job
    <3>2. \/ job' = [job EXCEPT ![w].ok = FALSE]
          \/ job' = [job EXCEPT ![w].had = HasFiles(current),
                                 ![w].journal = "running",
                                 ![w].ok = Complete(history[job[w].rel])]
        BY <2>1 DEF Preflight
    <3>3. [job EXCEPT ![w].ok = FALSE][v].rel = job[v].rel
        BY ZenonT(30) DEF Job
    <3>4. job'[v].rel = job[v].rel
      <4>1. [job EXCEPT ![w].had = HasFiles(current), ![w].journal = "running",
                        ![w].ok = Complete(history[job[w].rel])][v].rel = job[v].rel
          BY <3>1, Zenon
      <4>2. QED
          BY <3>2, <3>3, <4>1
    <3>5. QED
        BY <2>1, <3>4 DEF Preflight, HasFiles, Complete
  <2>2. CASE Stage(w) BY <2>2 DEF Stage
  <2>3. CASE Backup(w) BY <2>3 DEF Backup
  <2>4. CASE CheckLive(w) BY <2>4 DEF CheckLive
  <2>5. CASE RestoreByRollback(w) BY <2>5 DEF RestoreByRollback
  <2>6. CASE ClearLive(w) BY <2>6 DEF ClearLive
  <2>7. CASE Fail(w) BY <2>7 DEF Fail
  <2>8. CASE DropStage(w) BY <2>8 DEF DropStage
  <2>9. QED BY <1>5, <2>1, <2>2, <2>3, <2>4, <2>5, <2>6, <2>7, <2>8 DEF Deploy
<1>6. ASSUME NEW w \in Workers, Replace(w) PROVE job'[v].rel \in Releases
    BY <1>6, <1>3, Branches DEF Replace, Incoming, Retire, Publish, DropRetired, UndoDrop,
       UndoRestore, Goto, Errs
<1>7. ASSUME NEW w \in Workers, Rollback(w) PROVE job'[v].rel \in Releases
    BY <1>7, <1>3 DEF Rollback, RbCheck, RbArchive, RbDone, Goto, Errs
<1>8. ASSUME NEW w \in Workers, Prune(w) PROVE job'[v].rel \in Releases
    BY <1>8, <1>3 DEF Prune, Goto
<1>9. ASSUME NEW w \in Workers, Fault(w) PROVE job'[v].rel \in Releases
  <2>1. PICK step \in {"drop_unpacked", "answer", "fail", "undo_drop", "restore"} :
            /\ Hit(w, step)
            /\ step = "drop_unpacked" => pc[w] \in LookupSteps
      BY <1>9, Branches DEF Fault, FaultImport, FaultStage, FaultBackup, FaultIncoming,
         FaultSwitch, FaultUndo, FaultCheckLive, FaultClearLive, FaultRollback,
         FaultDropStage, FaultPrune
  <2>2. QED
      BY <2>1, <1>3 DEF Hit, Goto
<1>10. ASSUME Crash PROVE job'[v].rel \in Releases
    BY <1>10 DEF Crash
<1>11. CASE UNCHANGED vars
    BY <1>11 DEF vars
<1>12. QED
    BY <1>1, <1>2, <1>4, <1>5, <1>6, <1>7, <1>8, <1>9, <1>10, <1>11 DEF Next

\* Every variable keeps its type, for any number of workers, releases, errors
\* and crashes.
THEOREM TypeCorrect == Spec => []TypeOK
<1>1. Typed /\ [Next]_vars => Typed'
    BY TypeNext, NamesNext DEF Typed
<1>2. Typed => TypeOK
    BY DEF Typed
<1>3. QED
    BY TypeInit, <1>1, <1>2, PTL DEF Spec

(***************************************************************************)
(* One request at a time, and no I/O error between the first rename of the *)
(* switch and the end of the validation that follows it: then a complete   *)
(* release is always live or in the rollback target, however many requests *)
(* fail elsewhere and however often the process dies.  LiveOrPreviousIntact*)
(* is not inductive: what keeps it is that the code never leaves a torn    *)
(* directory live, takes had_live_before from a live directory that does   *)
(* not change until the backup is whole, and overwrites the backup only    *)
(* then.                                                                   *)
(***************************************************************************)
OneAtATime == \A u, v \in Workers : u = v

UnsafeFaults == {"retire", "drop_retired", "check_live", "restore"}

\* While the live directory is being replaced.
Switching == {"incoming", "retire", "publish", "undo_drop", "undo_restore"}

\* What one worker's place in the code says of the directories.
Progress(w) ==
    /\ pc[w] \in {"stage", "backup"} => (job[w].had <=> HasFiles(current))
    /\ pc[w] \in LookupSteps \cup {"backup"} => job[w].from = "stage"
    /\ pc[w] = "backup" => Complete(work[w])
    /\ pc[w] = "rb_archive" => Complete(previous) /\ job[w].from = "previous"
    /\ pc[w] = "incoming" => Complete(Source(w))
    /\ pc[w] \in {"retire", "publish"} => Complete(incoming)
    /\ pc[w] = "retire" => retired = Absent
    /\ pc[w] \in {"publish", "undo_drop", "undo_restore"} => current = Absent /\ retired # Torn
    /\ pc[w] \in {"drop_retired", "check_live"} => Complete(current)
    /\ pc[w] # "restore"
    /\ pc[w] \in Switching /\ established => Complete(previous)

LiveInv ==
    /\ TypeOK
    /\ NamesRelease
    /\ current # Torn
    /\ LiveOrPreviousIntact
    /\ \A w \in Workers : Progress(w)

LEMMA LiveInit == Init => LiveInv
<1> SUFFICES ASSUME Init PROVE LiveInv
    OBVIOUS
<1>1. TypeOK /\ NamesRelease
    BY TypeInit DEF Typed
<1>2. \A w \in Workers : Progress(w)
    BY DEF Init, Progress, Switching, LookupSteps
<1>3. current # Torn /\ LiveOrPreviousIntact
    BY ContentAssumption DEF Init, LiveOrPreviousIntact
<1>4. QED
    BY <1>1, <1>2, <1>3 DEF LiveInv

LEMMA LiveNext ==
    ASSUME OneAtATime, FaultPoints \cap UnsafeFaults = {}, LiveInv, [Next]_vars
    PROVE  LiveInv'
<1>1. TypeOK' /\ NamesRelease'
    BY TypeNext, NamesNext DEF LiveInv, Typed
<1> DEFINE Whole(w) == current' # Torn /\ LiveOrPreviousIntact' /\ Progress(w)'
<1> USE ContentAssumption
    DEF Complete, HasFiles, LiveOrPreviousIntact, Progress, Switching, Source, LookupSteps
<1>2. ASSUME NEW w \in Workers, Accept(w) PROVE Whole(w)
  <2>1. pc'[w] \in {"unpack", "check_source", "preflight", "rb_check"}
      BY <1>2 DEF LiveInv, TypeOK, Accept, Goto, FirstStep, Ops, Imports, Archives, Deploys
  <2>2. job'[w].from = "stage"
      BY <1>2 DEF LiveInv, TypeOK, Accept, NewJob
  <2>3. QED
      BY <1>2, <2>1, <2>2 DEF LiveInv, Accept, dirs, observers
<1>3. ASSUME NEW w \in Workers, Reply(w) PROVE Whole(w)
    BY <1>3 DEF LiveInv, TypeOK, Reply, Goto, dirs, observers
<1>4. ASSUME NEW w \in Workers, Import(w) PROVE Whole(w)
  <2> USE <1>4, Branches DEF LiveInv, TypeOK, Goto, dirs, observers
  <2>1. CASE Unpack(w) BY <2>1 DEF Unpack
  <2>2. CASE CheckSource(w)
    <3>1. [job EXCEPT ![w].ok = FALSE, ![w].hits = @ + 1][w].from = job[w].from
        BY ZenonT(30) DEF Job
    <3>2. QED
        BY <2>2, <3>1 DEF CheckSource
  <2>3. CASE DropHistory(w) BY <2>3 DEF DropHistory
  <2>4. CASE FillHistory(w) BY <2>4 DEF FillHistory
  <2>5. CASE DropUnpacked(w) BY <2>5 DEF DropUnpacked
  <2>6. QED BY <2>1, <2>2, <2>3, <2>4, <2>5 DEF Import
<1>5. ASSUME NEW w \in Workers, Deploy(w) PROVE Whole(w)
  <2> USE <1>5 DEF LiveInv, TypeOK, Goto, Errs, dirs, observers
  <2>1. CASE Preflight(w)
    <3>1. CASE pc'[w] = "stage"
      <4>1. job' = [job EXCEPT ![w].had = HasFiles(current), ![w].journal = "running",
                               ![w].ok = Complete(history[job[w].rel])]
          BY <2>1, <3>1 DEF Preflight
      <4>2. job'[w].had = HasFiles(current)
          BY <4>1, ZenonT(30) DEF Job
      <4>3. job'[w].from = job[w].from
          BY <4>1, ZenonT(30) DEF Job
      <4>4. QED
          BY <2>1, <3>1, <4>2, <4>3 DEF Preflight
    <3>2. CASE pc'[w] # "stage"
      <4>1. pc'[w] \in {"answer", "fail"}
          BY <2>1, <3>2 DEF Preflight
      <4>2. QED
          BY <2>1, <4>1 DEF Preflight
    <3>3. QED
        BY <3>1, <3>2
  <2>2. CASE Stage(w) BY <2>2 DEF Stage
  <2>3. CASE Backup(w)
    <3>1. CASE job[w].had /\ current = Absent
        BY <2>3, <3>1 DEF Backup
    <3>2. CASE ~(job[w].had /\ current = Absent)
      <4>1. /\ pc'[w] = "incoming" /\ job'[w].from = "stage"
            /\ UNCHANGED <<current, work, established>>
          BY <2>3, <3>2 DEF Backup
      <4>2. established => Complete(previous')
        <5>1. CASE job[w].had
            BY <2>3, <3>2, <5>1 DEF Backup, Content
        <5>2. CASE ~job[w].had
            BY <2>3, <3>2, <5>2 DEF Backup
        <5>3. QED
            BY <5>1, <5>2
      <4>3. Complete(work'[w])
          BY <2>3, <4>1 DEF Backup
      <4>4. QED
          BY <4>1, <4>2, <4>3
    <3>3. QED
        BY <3>1, <3>2
  <2>4. CASE CheckLive(w) BY <2>4 DEF CheckLive
  <2>5. CASE RestoreByRollback(w) BY <2>5 DEF RestoreByRollback
  <2>6. CASE ClearLive(w) BY <2>6 DEF ClearLive
  <2>7. CASE Fail(w) BY <2>7 DEF Fail
  <2>8. CASE DropStage(w) BY <2>8 DEF DropStage
  <2>9. QED BY <2>1, <2>2, <2>3, <2>4, <2>5, <2>6, <2>7, <2>8 DEF Deploy
<1>6. ASSUME NEW w \in Workers, Replace(w) PROVE Whole(w)
  <2> USE <1>6, Branches DEF LiveInv, TypeOK, Goto, Errs, dirs, observers
  <2>1. CASE Incoming(w) BY <2>1 DEF Incoming
  <2>2. CASE Retire(w) BY <2>2 DEF Retire
  <2>3. CASE Publish(w) BY <2>3 DEF Publish
  <2>4. CASE DropRetired(w) BY <2>4 DEF DropRetired
  <2>5. CASE UndoDrop(w) BY <2>5 DEF UndoDrop
  <2>6. CASE UndoRestore(w) BY <2>6 DEF UndoRestore
  <2>7. QED BY <2>1, <2>2, <2>3, <2>4, <2>5, <2>6 DEF Replace
<1>7. ASSUME NEW w \in Workers, Rollback(w) PROVE Whole(w)
  <2> USE <1>7 DEF LiveInv, TypeOK, Goto, Errs, dirs, observers
  <2>1. CASE RbCheck(w)
    <3>1. CASE Complete(previous)
      <4>1. job'[w].from = "previous" /\ pc'[w] = "rb_archive"
        <5>1. job' = [job EXCEPT ![w].from = "previous"] /\ Goto(w, "rb_archive")
            BY <2>1, <3>1 DEF RbCheck
        <5>2. [job EXCEPT ![w].from = "previous"][w].from = "previous"
            BY ZenonT(30) DEF Job
        <5>3. QED
            BY <5>1, <5>2
      <4>2. QED
          BY <2>1, <3>1, <4>1 DEF RbCheck
    <3>2. CASE ~Complete(previous)
      <4>1. pc'[w] \in {"fail", "answer"}
          BY <2>1, <3>2 DEF RbCheck
      <4>2. QED
          BY <2>1, <4>1 DEF RbCheck
    <3>3. QED
        BY <3>1, <3>2
  <2>2. CASE RbArchive(w) BY <2>2 DEF RbArchive
  <2>3. CASE RbDone(w) BY <2>3 DEF RbDone
  <2>4. QED BY <2>1, <2>2, <2>3 DEF Rollback
<1>8. ASSUME NEW w \in Workers, Prune(w) PROVE Whole(w)
    BY <1>8 DEF LiveInv, TypeOK, Prune, Goto, observers
<1>9. ASSUME NEW w \in Workers, Fault(w) PROVE Whole(w)
  <2>1. PICK step \in {"drop_unpacked", "answer", "fail", "undo_drop", "restore"} :
            /\ Hit(w, step)
            /\ step = "undo_drop" => pc[w] = "publish"
            /\ step # "restore"
            /\ step = "drop_unpacked" => pc[w] \in LookupSteps
      BY <1>9, Branches DEF Fault, FaultImport, FaultStage, FaultBackup, FaultIncoming,
         FaultSwitch, FaultUndo, FaultCheckLive, FaultClearLive, FaultRollback,
         FaultDropStage, FaultPrune, Hit, UnsafeFaults
  <2>2. pc'[w] = step /\ established' = established
      BY <2>1 DEF Hit, LiveInv, TypeOK, Goto, observers
  <2>3. job'[w].from = job[w].from
      BY <2>1, ZenonT(30) DEF Hit, LiveInv, TypeOK, Job
  <2> USE <2>1, <2>2, <2>3 DEF LiveInv, TypeOK, dirs
  <2>4. CASE FaultImport(w) BY <2>4 DEF FaultImport
  <2>5. CASE FaultStage(w) BY <2>5 DEF FaultStage
  <2>6. CASE FaultBackup(w)
    <3>1. Complete(current)
        BY <2>6 DEF FaultBackup, Content
    <3>2. QED
        BY <2>6, <3>1 DEF FaultBackup
  <2>7. CASE FaultIncoming(w) BY <2>7 DEF FaultIncoming
  <2>8. CASE FaultSwitch(w) BY <2>8 DEF FaultSwitch
  <2>9. CASE FaultUndo(w) BY <2>9 DEF FaultUndo, PartlyRemoved
  <2>10. CASE FaultCheckLive(w) BY <2>10 DEF FaultCheckLive
  <2>11. CASE FaultClearLive(w) BY <2>11 DEF FaultClearLive
  <2>12. CASE FaultRollback(w) BY <2>12 DEF FaultRollback
  <2>13. CASE FaultDropStage(w) BY <2>13 DEF FaultDropStage
  <2>14. CASE FaultPrune(w) BY <2>14 DEF FaultPrune
  <2>15. QED
      BY <1>9, <2>4, <2>5, <2>6, <2>7, <2>8, <2>9, <2>10, <2>11, <2>12, <2>13, <2>14
      DEF Fault
<1>10. ASSUME Crash, NEW w \in Workers PROVE Whole(w)
  <2>1. pc'[w] = "idle" /\ established' = established
      BY <1>10 DEF Crash, observers
  <2>2. \A u \in Workers : u = w
      BY DEF OneAtATime
  <2>3. current' = Restarted(current)
    <3>1. LiveLeft = {current}
        BY <2>2 DEF LiveInv, LiveLeft, PartlyRemoved
    <3>2. QED
        BY <1>10, <3>1 DEF Crash
  <2>4. pc[w] # "backup" \/ ~job[w].had => previous' = Restarted(previous)
      BY <1>10, <2>2 DEF Crash, BackingUp
  <2>5. QED
      BY <2>1, <2>3, <2>4 DEF LiveInv, Restarted, TypeOK, Content
<1>11. ASSUME UNCHANGED vars, NEW w \in Workers PROVE Whole(w)
    BY <1>11 DEF LiveInv, vars, dirs, budget, observers
<1>12. ASSUME NEW w \in Workers PROVE Whole(w)
    BY <1>2, <1>3, <1>4, <1>5, <1>6, <1>7, <1>8, <1>9, <1>10, <1>11
       DEF Next, OneAtATime
<1>13. QED
    BY <1>1, <1>12, WorkerAssumption DEF LiveInv

\* Requests served one at a time: once a deployment has completed, a complete
\* release is live or in the rollback target at every instant.
THEOREM LiveOrPreviousSafe ==
    ASSUME OneAtATime, FaultPoints \cap UnsafeFaults = {}
    PROVE  Spec => []LiveOrPreviousIntact
<1>1. LiveInv /\ [Next]_vars => LiveInv'
    BY LiveNext
<1>2. LiveInv => LiveOrPreviousIntact
    BY DEF LiveInv
<1>3. QED
    BY LiveInit, <1>1, <1>2, PTL DEF Spec

(***************************************************************************)
(* What one request does, one request at a time.  Before the switch the    *)
(* live directory is what it was when the request arrived; the backup, the *)
(* staged copy and current.staging hold what the step after them relies    *)
(* on; and a request which has met no error is still on its straight way.  *)
(* Nothing is assumed of what earlier errors and crashes left behind.      *)
(***************************************************************************)
ImportSteps == {"unpack", "check_source", "drop_history", "fill_history", "drop_unpacked"}
DeploySteps == {"stage", "backup", "check_live", "restore"}
ReplaceSteps == Switching \cup {"drop_retired"}
RollbackSteps == {"rb_archive", "rb_done"} \cup ReplaceSteps

\* The steps of a request that has met no error.
Forward ==
    {"unpack", "check_source", "drop_history", "fill_history", "preflight", "stage",
     "backup", "incoming", "retire", "publish", "drop_retired", "check_live",
     "rb_check", "rb_archive", "rb_done"}

\* The steps before the live directory is touched.
Ahead == (Forward \cup {"drop_unpacked"}) \ {"publish", "drop_retired", "check_live", "rb_done"}

\* No error but the one a nested rollback answers.
OnCourse(w) == job[w].hits <= IF job[w].nested THEN 1 ELSE 0

\* The release the switch is to bring live.
Goal(w) == IF job[w].from = "stage" THEN job[w].rel ELSE previous

\* Which request can be at which step, and with which flags.
Route(w) ==
    /\ job[w].op # "rollback" => job[w].rel \in Releases
    /\ pc[w] \in ImportSteps => job[w].op \in Imports
    /\ pc[w] \in DeploySteps \cup {"preflight", "fail", "drop_stage"} => job[w].op \in Deploys
    /\ pc[w] \in DeploySteps \cup LookupSteps => job[w].from = "stage" /\ ~job[w].nested
    /\ pc[w] \in LookupSteps \ {"stage"} => job[w].journal = "none"
    /\ pc[w] \in {"rb_check", "rb_archive", "rb_done"} =>
          (job[w].nested <=> job[w].op # "rollback")
    /\ pc[w] \in {"rb_archive", "rb_done"} => job[w].from = "previous"
    /\ pc[w] \in ReplaceSteps =>
          /\ job[w].op \in Deploys \cup {"rollback"}
          /\ job[w].from = "previous" <=> (job[w].nested \/ job[w].op = "rollback")
    /\ job[w].nested => job[w].op \in Deploys /\ job[w].hits > 0
    /\ job[w].hits > 0 => ~job[w].ok
    /\ pc[w] = "drop_unpacked" /\ job[w].hits = 0 => job[w].ok
    /\ pc[w] \in Forward /\ ~job[w].nested => job[w].ok /\ job[w].hits = 0
    /\ pc[w] \in {"undo_drop", "undo_restore", "restore"} => job[w].hits > 0
    /\ pc[w] = "prune" => job[w].ok
    /\ pc[w] = "fail" => ~job[w].ok
    /\ job[w].journal = "completed" => pc[w] \in {"drop_stage", "prune", "answer"}

\* The directory history/<id> holds that release, whole or in part.
Own == \A r \in Releases : history[r] \in {r, Absent, Empty, Torn}

\* What the sources of the next copy hold.
Sources(w) ==
    /\ \/ pc[w] = "drop_unpacked" /\ job[w].ok
       \/ pc[w] = "preflight" /\ job[w].op \in Imports
       \/ pc[w] = "stage"
       => history[job[w].rel] = job[w].rel
    /\ pc[w] = "backup" \/ (pc[w] = "incoming" /\ job[w].from = "stage")
       => work[w] = job[w].rel
    /\ pc[w] \in {"retire", "publish"} /\ OnCourse(w) => incoming = Goal(w)

\* The rollback target of a deployment is what was live; that of a rollback is
\* complete.
Backed(w) ==
    /\ pc[w] \in DeploySteps \cup RollbackSteps \cup {"rb_check"} /\ job[w].op \in Deploys
       => (job[w].had <=> HasFiles(job[w].before))
    /\ pc[w] \in {"rb_check", "check_live", "restore"} \cup RollbackSteps
          /\ job[w].op \in Deploys /\ job[w].had
       => previous = job[w].before
    /\ pc[w] \in RollbackSteps /\ job[w].from = "previous" => Complete(previous)
    /\ pc[w] \in RollbackSteps \cup {"rb_check"} /\ job[w].nested => job[w].had

\* Where the live release is.
Shown(w) ==
    /\ pc[w] \in Ahead /\ ~job[w].nested => current = job[w].before
    /\ pc[w] = "retire" => retired = Absent /\ ~job[w].moved
    /\ pc[w] = "publish" /\ OnCourse(w) => current = Absent
    /\ pc[w] = "publish" /\ ~job[w].nested =>
          IF job[w].moved THEN retired = job[w].before /\ retired # Absent
                          ELSE job[w].before = Absent
    /\ pc[w] \in {"drop_retired", "check_live", "rb_done"} /\ OnCourse(w) => current = Goal(w)
    /\ pc[w] = "restore" /\ job[w].hits = 1 => current = job[w].rel

\* The refusals of a request that met no error.
Refused(w) ==
    \/ job[w].op = "activate" /\ ~Complete(history[job[w].rel])
    \/ job[w].op = "rollback" /\ ~Complete(previous)

\* What a journal that says completed and an answer that refuses stand for.
Outcome(w) ==
    /\ job[w].journal = "completed" =>
          IF job[w].op = "rollback" THEN Complete(current) /\ current = previous
          ELSE /\ current = job[w].rel
               /\ HasFiles(job[w].before) => previous = job[w].before
    /\ pc[w] \in {"fail", "drop_stage", "answer"} /\ ~job[w].ok /\ job[w].hits = 0 => Refused(w)

Serves(w) == Route(w) /\ Sources(w) /\ Backed(w) /\ Shown(w) /\ Outcome(w)

RequestInv == Typed /\ Own /\ \A w \in Workers : Serves(w)

\* The types the steps use.
WellTyped(w) ==
    /\ job \in [Workers -> Job] /\ pc \in [Workers -> Steps]
    /\ job[w].op \in Ops /\ job[w].rel \in Releases \cup {Absent}
    /\ job[w].had \in BOOLEAN /\ job[w].moved \in BOOLEAN
    /\ job[w].nested \in BOOLEAN /\ job[w].ok \in BOOLEAN
    /\ job[w].from \in {"stage", "previous"}
    /\ job[w].journal \in {"none", "running", "completed", "failed"}
    /\ job[w].before \in Content /\ job[w].hits \in Nat
    /\ pc[w] \in LookupSteps => job[w].rel \in Releases
    /\ {current, previous, incoming, retired} \subseteq Content
    /\ history \in [Releases -> Content] /\ work \in [Workers -> Content]

LEMMA JobTypes == ASSUME Typed, NEW w \in Workers PROVE WellTyped(w)
BY DEF Typed, TypeOK, NamesRelease, Job, WellTyped

(***************************************************************************)
(* What each update of a request leaves as it was.                         *)
(***************************************************************************)
SameRequest(w) ==
    /\ job'[w].op = job[w].op /\ job'[w].rel = job[w].rel
    /\ job'[w].had = job[w].had /\ job'[w].before = job[w].before

LEMMA ErrsFields ==
    ASSUME NEW w \in Workers, job \in [Workers -> Job], Errs(w)
    PROVE  /\ SameRequest(w)
           /\ job'[w].moved = job[w].moved /\ job'[w].nested = job[w].nested
           /\ job'[w].from = job[w].from /\ job'[w].journal = job[w].journal
           /\ job'[w].hits = job[w].hits /\ job'[w].ok = FALSE
BY DEF Errs, Job, SameRequest

LEMMA HitFields ==
    ASSUME NEW w \in Workers, job \in [Workers -> Job],
           job' = [job EXCEPT ![w].ok = FALSE, ![w].hits = @ + 1]
    PROVE  /\ SameRequest(w)
           /\ job'[w].moved = job[w].moved /\ job'[w].nested = job[w].nested
           /\ job'[w].from = job[w].from /\ job'[w].journal = job[w].journal
           /\ job'[w].hits = job[w].hits + 1 /\ job'[w].ok = FALSE
BY ZenonT(30) DEF Job, SameRequest

\* An error that an operation met.
LEMMA HitFacts ==
    ASSUME NEW w \in Workers, WellTyped(w), NEW step, Hit(w, step)
    PROVE  /\ pc'[w] = step /\ SameRequest(w)
           /\ job'[w].moved = job[w].moved /\ job'[w].nested = job[w].nested
           /\ job'[w].from = job[w].from /\ job'[w].journal = job[w].journal
           /\ job'[w].hits = job[w].hits + 1 /\ job'[w].ok = FALSE
<1>1. pc'[w] = step
    BY DEF Hit, Goto, WellTyped
<1>2. /\ job \in [Workers -> Job]
      /\ job' = [job EXCEPT ![w].ok = FALSE, ![w].hits = @ + 1]
    BY Zenon DEF Hit, WellTyped
<1>3. QED
    BY <1>1, <1>2, HitFields, Zenon

LEMMA MovedFields ==
    ASSUME NEW w \in Workers, job \in [Workers -> Job], NEW b,
           job' = [job EXCEPT ![w].moved = b]
    PROVE  /\ SameRequest(w)
           /\ job'[w].moved = b /\ job'[w].nested = job[w].nested
           /\ job'[w].from = job[w].from /\ job'[w].journal = job[w].journal
           /\ job'[w].hits = job[w].hits /\ job'[w].ok = job[w].ok
BY ZenonT(30) DEF Job, SameRequest

LEMMA NestedFields ==
    ASSUME NEW w \in Workers, job \in [Workers -> Job], NEW b,
           job' = [job EXCEPT ![w].nested = b]
    PROVE  /\ SameRequest(w)
           /\ job'[w].moved = job[w].moved /\ job'[w].nested = b
           /\ job'[w].from = job[w].from /\ job'[w].journal = job[w].journal
           /\ job'[w].hits = job[w].hits /\ job'[w].ok = job[w].ok
BY ZenonT(30) DEF Job, SameRequest

LEMMA FromFields ==
    ASSUME NEW w \in Workers, job \in [Workers -> Job], NEW s,
           job' = [job EXCEPT ![w].from = s]
    PROVE  /\ SameRequest(w)
           /\ job'[w].moved = job[w].moved /\ job'[w].nested = job[w].nested
           /\ job'[w].from = s /\ job'[w].journal = job[w].journal
           /\ job'[w].hits = job[w].hits /\ job'[w].ok = job[w].ok
BY ZenonT(30) DEF Job, SameRequest

LEMMA JournalFields ==
    ASSUME NEW w \in Workers, job \in [Workers -> Job], NEW s,
           job' = [job EXCEPT ![w].journal = s]
    PROVE  /\ SameRequest(w)
           /\ job'[w].moved = job[w].moved /\ job'[w].nested = job[w].nested
           /\ job'[w].from = job[w].from /\ job'[w].journal = s
           /\ job'[w].hits = job[w].hits /\ job'[w].ok = job[w].ok
BY ZenonT(30) DEF Job, SameRequest

LEMMA RequestInit == Init => RequestInv
<1> SUFFICES ASSUME Init PROVE RequestInv
    OBVIOUS
<1>1. Typed /\ Own
    BY TypeInit DEF Init, Own
<1>2. ASSUME NEW w \in Workers PROVE Serves(w)
    BY DEF Init, NoJob, NewJob, Serves, Route, Sources, Backed, Shown, Outcome,
       ImportSteps, DeploySteps, ReplaceSteps, RollbackSteps, Switching, Forward, Ahead,
       LookupSteps
<1>3. QED
    BY <1>1, <1>2 DEF RequestInv

LEMMA RequestNext ==
    ASSUME OneAtATime, RequestInv, Next, NEW w \in Workers
    PROVE  Serves(w)' /\ Own'
<1>0. \A u \in Workers : u = w
    BY DEF OneAtATime
<1>1. WellTyped(w) /\ Own /\ Serves(w)
    BY JobTypes DEF RequestInv
<1>h. ASSUME NEW step, Hit(w, step)
      PROVE  /\ pc'[w] = step /\ SameRequest(w) /\ job'[w].nested = job[w].nested
             /\ job'[w].moved = job[w].moved /\ job'[w].from = job[w].from
             /\ job'[w].journal = job[w].journal
             /\ job'[w].hits = job[w].hits + 1 /\ job'[w].ok = FALSE
    BY <1>1, <1>h, HitFacts, Zenon
<1> USE ContentAssumption
    DEF WellTyped, Serves, Route, Sources, Backed, Shown, Outcome, Refused, Own, OnCourse, Goal,
        ImportSteps, DeploySteps, ReplaceSteps, RollbackSteps, Switching, Forward, Ahead,
        LookupSteps, Complete, HasFiles, SameRequest, Content
<1>2. CASE Accept(w)
    BY <1>1, <1>2 DEF Accept, Goto, FirstStep, NewJob, Ops, Imports, Archives, Deploys, dirs, budget, observers
<1>3. CASE Reply(w)
    BY <1>1, <1>3 DEF Reply, Goto, NoJob, NewJob, dirs, budget, observers
<1>4. CASE Import(w)
  <2> USE DEF Goto, dirs, budget, observers
  <2>1. CASE Unpack(w) BY <1>1, <2>1 DEF Unpack
  <2>2. CASE CheckSource(w)
    <3>1. CASE Goto(w, "drop_history") /\ UNCHANGED job
        BY <1>1, <2>2, <3>1 DEF CheckSource
    <3>2. CASE /\ Goto(w, AfterImportError(w))
               /\ job' = [job EXCEPT ![w].ok = FALSE, ![w].hits = @ + 1]
      <4>1. pc'[w] \in {"drop_unpacked", "answer"}
          BY <1>1, <3>2, Branches
      <4>2. /\ SameRequest(w)
            /\ job'[w].nested = job[w].nested /\ job'[w].from = job[w].from
            /\ job'[w].journal = job[w].journal
            /\ job'[w].hits = job[w].hits + 1 /\ job'[w].ok = FALSE
          BY <1>1, <3>2, HitFields
      <4>3. pc'[w] = "drop_unpacked" => job[w].op \in Imports /\ job[w].from = "stage" /\ ~job[w].nested
          BY <1>1, <2>2 DEF CheckSource
      <4>4. UNCHANGED <<current, previous, history>> /\ job[w].journal = "none" /\ ~job[w].nested
          BY <1>1, <2>2 DEF CheckSource
      <4>5. QED
        <5>1. Route(w)' BY <1>1, <4>1, <4>2, <4>3, <4>4
        <5>2. Sources(w)' /\ Own' BY <1>1, <4>1, <4>2, <4>3, <4>4
        <5>3. Backed(w)' BY <4>1, <4>2, <4>3, <4>4
        <5>4. Shown(w)' BY <1>1, <2>2, <4>1, <4>2, <4>3, <4>4 DEF CheckSource
        <5>5. Outcome(w)' BY <1>1, <4>1, <4>2, <4>3, <4>4
        <5>6. QED BY <5>1, <5>2, <5>3, <5>4, <5>5
    <3>3. QED
        BY <2>2, <3>1, <3>2 DEF CheckSource
  <2>3. CASE DropHistory(w) BY <1>1, <2>3 DEF DropHistory
  <2>4. CASE FillHistory(w) BY <1>1, <2>4 DEF FillHistory, AfterImport, Imports, Archives
  <2>5. CASE DropUnpacked(w)
    <3>1. pc[w] = "drop_unpacked" /\ UNCHANGED <<dirs, job>>
        BY <1>1, <2>5 DEF DropUnpacked
    <3>2. pc'[w] = IF job[w].ok /\ job[w].op \in Deploys THEN "preflight" ELSE "answer"
        BY <1>1, <2>5 DEF DropUnpacked, AfterImport
    <3>3. job[w].ok => job[w].hits = 0
        BY <1>1, <3>1
    <3>7. Route(w)' BY <1>1, <3>1, <3>2, <3>3
    <3>8. Sources(w)' /\ Own' BY <1>1, <3>1, <3>2, <3>3
    <3>9. Backed(w)' BY <1>1, <3>1, <3>2, <3>3
    <3>10. Shown(w)' BY <1>1, <3>1, <3>2, <3>3
    <3>11. Outcome(w)' BY <1>1, <3>1, <3>2, <3>3
    <3>12. QED BY <3>7, <3>8, <3>9, <3>10, <3>11
  <2>6. QED BY <1>4, <2>1, <2>2, <2>3, <2>4, <2>5 DEF Import
<1>5. CASE Deploy(w)
  <2> USE DEF Goto, dirs, budget, observers
  <2>1. CASE Preflight(w)
    <3>1. CASE history[job[w].rel] = Absent
      <4>1. pc'[w] = "answer" /\ Errs(w) /\ UNCHANGED dirs
          BY <1>1, <2>1, <3>1 DEF Preflight
      <4>0. pc[w] = "preflight" /\ job[w].op = "activate"
          BY <1>1, <2>1, <3>1 DEF Preflight, Deploys, Imports
      <4>2. QED
          BY <1>1, <2>1, <3>1, <4>1, <4>0, ErrsFields
    <3>2. CASE history[job[w].rel] # Absent
      <4>1. /\ pc'[w] = IF Complete(history[job[w].rel]) THEN "stage" ELSE "fail"
            /\ job' = [job EXCEPT ![w].had = HasFiles(current), ![w].journal = "running",
                                  ![w].ok = Complete(history[job[w].rel])]
            /\ UNCHANGED dirs
          BY <1>1, <2>1, <3>2 DEF Preflight
      <4>2. /\ job'[w].op = job[w].op /\ job'[w].rel = job[w].rel
            /\ job'[w].had = HasFiles(current) /\ job'[w].before = job[w].before
            /\ job'[w].nested = job[w].nested /\ job'[w].from = job[w].from
            /\ job'[w].journal = "running" /\ job'[w].hits = job[w].hits
            /\ job'[w].ok = Complete(history[job[w].rel])
        <5>1. job \in [Workers -> Job]
            BY <1>1
        <5> HIDE DEF Complete, HasFiles
        <5>2. PICK b, c :
                  /\ b = HasFiles(current) /\ c = Complete(history[job[w].rel])
                  /\ job' = [job EXCEPT ![w].had = b, ![w].journal = "running", ![w].ok = c]
            BY <4>1, Zenon
        <5>3. /\ job'[w].op = job[w].op /\ job'[w].rel = job[w].rel
              /\ job'[w].had = b /\ job'[w].before = job[w].before
              /\ job'[w].nested = job[w].nested /\ job'[w].from = job[w].from
              /\ job'[w].journal = "running" /\ job'[w].hits = job[w].hits
              /\ job'[w].ok = c
            BY <5>1, <5>2, ZenonT(30) DEF Job
        <5>4. QED
            BY <5>2, <5>3, Zenon
      <4>3. /\ job[w].rel \in Releases /\ job[w].op \in Deploys /\ job[w].ok
            /\ ~job[w].nested /\ job[w].from = "stage" /\ job[w].hits = 0
            /\ current = job[w].before
            /\ job[w].op \in Imports => history[job[w].rel] = job[w].rel
          BY <1>1, <2>1 DEF Preflight
      <4>4. history[job[w].rel] \in {job[w].rel, Empty, Torn} /\ Own /\ UNCHANGED dirs
          BY <1>1, <3>2, <4>1, <4>3
      <4>5. Route(w)'
        <5>1. pc'[w] \in {"stage", "fail"} /\ (pc'[w] = "stage" <=> job'[w].ok)
            BY <4>1, <4>2
        <5>2. QED
            BY <4>2, <4>3, <5>1
      <4>6. Sources(w)' /\ Own' BY <4>1, <4>2, <4>3, <4>4
      <4>7. Backed(w)' BY <4>1, <4>2, <4>3
      <4>8. Shown(w)' BY <4>1, <4>2, <4>3
      <4>9. Outcome(w)' BY <4>1, <4>2, <4>3, <4>4 DEF Deploys, Imports
      <4>10. QED BY <4>5, <4>6, <4>7, <4>8, <4>9
    <3>3. QED
        BY <3>1, <3>2
  <2>2. CASE Stage(w) BY <1>1, <2>2, ErrsFields DEF Stage
  <2>3. CASE Backup(w)
    <3>1. /\ job[w].op \in Deploys /\ (job[w].had <=> HasFiles(current))
          /\ current = job[w].before /\ work[w] = job[w].rel
          /\ job[w].from = "stage" /\ ~job[w].nested /\ job[w].journal # "completed"
        BY <1>1, <2>3 DEF Backup
    <3>2. /\ pc'[w] = "incoming" /\ UNCHANGED <<job, current, work, history>>
          /\ previous' = IF job[w].had THEN current ELSE previous
        BY <1>1, <2>3, <3>1 DEF Backup
    <3>3. job[w].ok /\ job[w].hits = 0
        BY <1>1, <2>3 DEF Backup
    <3>4. job[w].rel \in Releases /\ Own
        BY <1>1, <3>1 DEF Deploys
    <3>5. Route(w)' BY <3>1, <3>2, <3>3, <3>4 DEF Deploys
    <3>6. Sources(w)' /\ Own' BY <3>1, <3>2, <3>3, <3>4
    <3>7. Backed(w)' BY <3>1, <3>2, <3>3, <3>4
    <3>8. Shown(w)' BY <3>1, <3>2, <3>3, <3>4
    <3>9. Outcome(w)' BY <3>1, <3>2, <3>3, <3>4
    <3>10. QED BY <3>5, <3>6, <3>7, <3>8, <3>9
  <2>4. CASE CheckLive(w)
    <3>1. /\ job[w].op \in Deploys /\ (job[w].had <=> HasFiles(job[w].before))
          /\ job[w].had => previous = job[w].before
          /\ job[w].from = "stage" /\ ~job[w].nested /\ job[w].ok /\ job[w].hits = 0
          /\ current = job[w].rel /\ job[w].rel \in Releases
        BY <1>1, <2>4 DEF CheckLive, Deploys
    <3>2. Complete(current)
        BY <3>1
    <3>3. /\ pc'[w] = "drop_stage" /\ job' = [job EXCEPT ![w].journal = "completed"]
          /\ UNCHANGED dirs
        BY <1>1, <2>4, <3>2 DEF CheckLive
    <3>4. /\ SameRequest(w)
          /\ job'[w].nested = job[w].nested /\ job'[w].from = job[w].from
          /\ job'[w].hits = job[w].hits /\ job'[w].ok = job[w].ok
        BY <1>1, <3>3, JournalFields
    <3>5. QED
        BY <1>1, <3>1, <3>3, <3>4 DEF Deploys
  <2>5. CASE RestoreByRollback(w)
    <3>1. /\ job[w].op \in Deploys /\ job[w].op # "rollback" /\ job[w].rel \in Releases
          /\ job[w].had /\ HasFiles(job[w].before) /\ previous = job[w].before
          /\ job[w].from = "stage" /\ job[w].hits > 0 /\ ~job[w].ok
          /\ job[w].journal # "completed"
        BY <1>1, <2>5 DEF RestoreByRollback, CanRollBack, Deploys
    <3>2. pc'[w] = "rb_check" /\ UNCHANGED dirs
        BY <1>1, <2>5 DEF RestoreByRollback
    <3>3. /\ SameRequest(w)
          /\ job'[w].nested = TRUE /\ job'[w].from = job[w].from
          /\ job'[w].journal = job[w].journal
          /\ job'[w].hits = job[w].hits /\ job'[w].ok = job[w].ok
        BY <1>1, <2>5, NestedFields DEF RestoreByRollback
    <3>4. QED
        BY <1>1, <3>1, <3>2, <3>3
  <2>6. CASE ClearLive(w) BY <1>1, <2>6 DEF ClearLive, CanRollBack
  <2>7. CASE Fail(w) BY <1>1, <2>7, JournalFields DEF Fail
  <2>8. CASE DropStage(w) BY <1>1, <2>8 DEF DropStage
  <2>9. QED BY <1>5, <2>1, <2>2, <2>3, <2>4, <2>5, <2>6, <2>7, <2>8 DEF Deploy
<1>6. CASE Replace(w)
  <2> USE DEF Goto, dirs, budget, observers
  <2>1. CASE Incoming(w)
    <3>1. /\ job[w].op \in Deploys \cup {"rollback"}
          /\ job[w].from = "previous" <=> (job[w].nested \/ job[w].op = "rollback")
          /\ job[w].journal # "completed"
          /\ ~job[w].nested => job[w].ok /\ job[w].hits = 0 /\ current = job[w].before
        BY <1>1, <2>1 DEF Incoming
    <3>2. Source(w) = Goal(w) /\ Goal(w) \in Releases
        BY <1>1, <2>1, <3>1 DEF Incoming, Source, Deploys
    <3>3. /\ pc'[w] = "retire" /\ job' = [job EXCEPT ![w].moved = FALSE]
          /\ retired' = Absent /\ incoming' = Goal(w)
          /\ UNCHANGED <<current, previous, history, evidence, work>>
        BY <1>1, <2>1, <3>2 DEF Incoming
    <3>4. /\ SameRequest(w)
          /\ job'[w].moved = FALSE /\ job'[w].nested = job[w].nested
          /\ job'[w].from = job[w].from /\ job'[w].journal = job[w].journal
          /\ job'[w].hits = job[w].hits /\ job'[w].ok = job[w].ok
        BY <1>1, <3>3, MovedFields
    <3>5. Route(w)' BY <1>1, <3>1, <3>3, <3>4
    <3>6. Sources(w)' /\ Own' BY <1>1, <3>3, <3>4
    <3>7. Backed(w)' BY <1>1, <2>1, <3>3, <3>4 DEF Incoming
    <3>8. Shown(w)' BY <3>1, <3>3, <3>4
    <3>9. Outcome(w)' BY <3>1, <3>3, <3>4
    <3>10. QED BY <3>5, <3>6, <3>7, <3>8, <3>9
  <2>2. CASE Retire(w)
    <3>1. /\ job[w].op \in Deploys \cup {"rollback"}
          /\ job[w].from = "previous" <=> (job[w].nested \/ job[w].op = "rollback")
          /\ job[w].journal # "completed" /\ retired = Absent /\ ~job[w].moved
          /\ ~job[w].nested => job[w].ok /\ job[w].hits = 0 /\ current = job[w].before
          /\ OnCourse(w) => incoming = Goal(w)
        BY <1>1, <2>2 DEF Retire
    <3>2. pc'[w] = "publish" /\ UNCHANGED <<previous, incoming, history, evidence, work>>
        BY <1>1, <2>2, <3>1 DEF Retire
    <3>3. /\ SameRequest(w)
          /\ job'[w].nested = job[w].nested /\ job'[w].from = job[w].from
          /\ job'[w].journal = job[w].journal
          /\ job'[w].hits = job[w].hits /\ job'[w].ok = job[w].ok
        BY <1>1, <2>2, <3>1, MovedFields DEF Retire
    <3>4. /\ current' = Absent
          /\ IF current = Absent THEN retired' = Absent ELSE retired' = current
        BY <1>1, <2>2, <3>1 DEF Retire
    <3>5. job'[w].moved <=> current # Absent
        BY <1>1, <2>2, <3>1, MovedFields DEF Retire
    <3>6. Route(w)' BY <1>1, <3>1, <3>2, <3>3
    <3>7. Sources(w)' /\ Own' BY <1>1, <3>1, <3>2, <3>3
    <3>8. Backed(w)' BY <1>1, <2>2, <3>2, <3>3 DEF Retire
    <3>9. Shown(w)' BY <3>1, <3>2, <3>3, <3>4, <3>5
    <3>10. Outcome(w)' BY <3>1, <3>2, <3>3
    <3>11. QED BY <3>6, <3>7, <3>8, <3>9, <3>10
  <2>3. CASE Publish(w) BY <1>1, <2>3 DEF Publish
  <2>4. CASE DropRetired(w)
    <3>1. /\ job[w].op \in Deploys \cup {"rollback"}
          /\ job[w].from = "previous" <=> (job[w].nested \/ job[w].op = "rollback")
          /\ job[w].journal # "completed"
          /\ OnCourse(w) => current = Goal(w)
        BY <1>1, <2>4 DEF DropRetired
    <3>2. /\ pc'[w] = IF job[w].from = "stage" THEN "check_live" ELSE "rb_done"
          /\ UNCHANGED <<current, previous, history, evidence, work, job>>
        BY <1>1, <2>4 DEF DropRetired
    <3>3. Route(w)' BY <1>1, <2>4, <3>1, <3>2 DEF DropRetired, Deploys
    <3>4. Sources(w)' /\ Own' BY <1>1, <3>1, <3>2
    <3>5. Backed(w)' BY <1>1, <2>4, <3>1, <3>2 DEF DropRetired
    <3>6. Shown(w)' BY <3>1, <3>2
    <3>7. Outcome(w)' BY <3>1, <3>2
    <3>8. QED BY <3>3, <3>4, <3>5, <3>6, <3>7
  <2>5. CASE UndoDrop(w) BY <1>1, <2>5 DEF UndoDrop
  <2>6. CASE UndoRestore(w)
    <3>1. /\ job[w].op \in Deploys \cup {"rollback"} /\ job[w].hits > 0
          /\ job[w].from = "previous" <=> (job[w].nested \/ job[w].op = "rollback")
          /\ job[w].journal # "completed"
        BY <1>1, <2>6 DEF UndoRestore
    <3>2. /\ pc'[w] = (IF job[w].from = "stage" \/ job[w].nested THEN "fail" ELSE "answer")
          /\ UNCHANGED <<previous, history, evidence, work>>
        BY <1>1, <2>6 DEF UndoRestore, AfterRaise
    <3>3. /\ SameRequest(w)
          /\ job'[w].nested = job[w].nested /\ job'[w].from = job[w].from
          /\ job'[w].journal = job[w].journal
          /\ job'[w].hits = job[w].hits /\ job'[w].ok = FALSE
        BY <1>1, <2>6, ErrsFields DEF UndoRestore
    <3>4. Route(w)' BY <1>1, <3>1, <3>2, <3>3
    <3>5. Sources(w)' /\ Own' BY <1>1, <3>1, <3>2
    <3>6. Backed(w)' /\ Shown(w)' /\ Outcome(w)' BY <1>1, <3>1, <3>2, <3>3
    <3>7. QED BY <3>4, <3>5, <3>6
  <2>7. QED BY <1>6, <2>1, <2>2, <2>3, <2>4, <2>5, <2>6 DEF Replace
<1>7. CASE Rollback(w)
  <2> USE DEF Goto, dirs, budget, observers
  <2>1. CASE RbCheck(w)
    <3>1. /\ job[w].nested <=> job[w].op # "rollback"
          /\ job[w].nested => job[w].op \in Deploys /\ job[w].had
          /\ job[w].journal # "completed"
          /\ ~job[w].nested => job[w].ok /\ job[w].hits = 0 /\ current = job[w].before
        BY <1>1, <2>1 DEF RbCheck
    <3>2. UNCHANGED dirs
        BY <2>1 DEF RbCheck
    <3>3. CASE Complete(previous)
      <4>1. pc'[w] = "rb_archive"
          BY <1>1, <2>1, <3>3 DEF RbCheck
      <4>2. /\ SameRequest(w)
            /\ job'[w].nested = job[w].nested /\ job'[w].from = "previous"
            /\ job'[w].journal = job[w].journal
            /\ job'[w].hits = job[w].hits /\ job'[w].ok = job[w].ok
          BY <1>1, <2>1, <3>3, FromFields DEF RbCheck
      <4>3. Route(w)' BY <1>1, <3>1, <4>1, <4>2
      <4>4. Sources(w)' /\ Own' BY <1>1, <3>2, <4>1
      <4>5. Backed(w)' BY <1>1, <2>1, <3>1, <3>2, <3>3, <4>1, <4>2 DEF RbCheck
      <4>6. Shown(w)' /\ Outcome(w)' BY <3>1, <3>2, <4>1, <4>2
      <4>7. QED BY <4>3, <4>4, <4>5, <4>6
    <3>4. CASE ~Complete(previous)
      <4>1. pc'[w] = IF job[w].nested THEN "fail" ELSE "answer"
          BY <1>1, <2>1, <3>4 DEF RbCheck
      <4>2. /\ SameRequest(w)
            /\ job'[w].nested = job[w].nested /\ job'[w].from = job[w].from
            /\ job'[w].journal = job[w].journal
            /\ job'[w].hits = job[w].hits /\ job'[w].ok = FALSE
          BY <1>1, <2>1, <3>4, ErrsFields DEF RbCheck
      <4>3. Route(w)' BY <1>1, <3>1, <4>1, <4>2
      <4>4. Sources(w)' /\ Own' BY <1>1, <3>2, <4>1
      <4>5. Backed(w)' /\ Shown(w)' BY <4>1
      <4>6. Outcome(w)' BY <1>1, <3>1, <3>2, <3>4, <4>1, <4>2
      <4>7. QED BY <4>3, <4>4, <4>5, <4>6
    <3>5. QED
        BY <3>3, <3>4
  <2>2. CASE RbArchive(w) BY <1>1, <2>2 DEF RbArchive
  <2>3. CASE RbDone(w)
    <3>1. /\ job[w].nested <=> job[w].op # "rollback"
          /\ job[w].from = "previous" /\ Complete(previous)
          /\ OnCourse(w) => current = previous
          /\ job[w].nested => job[w].op \in Deploys /\ ~job[w].ok /\ job[w].hits > 0
          /\ ~job[w].nested => job[w].ok /\ job[w].hits = 0
          /\ job[w].journal # "completed"
        BY <1>1, <2>3 DEF RbDone
    <3>2. UNCHANGED dirs
        BY <2>3 DEF RbDone
    <3>3. CASE job[w].nested
      <4>1. pc'[w] = "fail" /\ UNCHANGED job
          BY <1>1, <2>3, <3>3 DEF RbDone
      <4>2. QED
          BY <1>1, <3>1, <3>2, <3>3, <4>1
    <3>4. CASE ~job[w].nested
      <4>1. pc'[w] = "prune"
          BY <1>1, <2>3, <3>4 DEF RbDone
      <4>2. /\ SameRequest(w)
            /\ job'[w].nested = job[w].nested /\ job'[w].journal = "completed"
            /\ job'[w].hits = job[w].hits /\ job'[w].ok = job[w].ok
          BY <1>1, <2>3, <3>4, JournalFields DEF RbDone
      <4>3. QED
          BY <1>1, <3>1, <3>2, <3>4, <4>1, <4>2
    <3>5. QED
        BY <3>3, <3>4
  <2>4. QED BY <1>7, <2>1, <2>2, <2>3 DEF Rollback
<1>8. CASE Prune(w)
    BY <1>1, <1>8 DEF Prune, Goto, budget, observers
<1>9. CASE Fault(w)
  <2>1. ASSUME NEW step \in {"fail", "answer", "undo_drop", "drop_unpacked", "restore"},
               Hit(w, step), Own',
               step \in {"fail", "restore"} => job[w].op \in Deploys,
               step = "restore" => pc[w] = "check_live" /\ UNCHANGED dirs,
               step = "undo_drop" => pc[w] \in ReplaceSteps /\ UNCHANGED previous,
               step = "drop_unpacked" =>
                   pc[w] \in ImportSteps \ {"drop_unpacked"} /\ UNCHANGED current,
               job[w].journal = "completed" =>
                   step = "answer" /\ UNCHANGED <<current, previous>>
        PROVE  Serves(w)' /\ Own'
    <3>1. /\ pc'[w] = step /\ SameRequest(w) /\ job'[w].nested = job[w].nested
          /\ job'[w].moved = job[w].moved /\ job'[w].from = job[w].from
          /\ job'[w].journal = job[w].journal
          /\ job'[w].hits = job[w].hits + 1 /\ job'[w].ok = FALSE
        BY <1>h, <2>1, Zenon
    <3>2. job'[w].hits > 0 /\ job'[w].hits # 0
        BY <1>1, <3>1
    <3>3. Route(w)' BY <1>1, <2>1, <3>1, <3>2
    <3>4. Sources(w)' BY <1>1, <2>1, <3>1, <3>2
    <3>5. Backed(w)' BY <1>1, <2>1, <3>1, <3>2 DEF dirs
    <3>6. Shown(w)' BY <1>1, <2>1, <3>1, <3>2 DEF dirs, Deploys
    <3>7. Outcome(w)' BY <1>1, <2>1, <3>1, <3>2
    <3>8. QED BY <2>1, <3>3, <3>4, <3>5, <3>6, <3>7
  <2>0. Route(w) /\ (job[w].journal # "completed" \/ pc[w] \in {"drop_stage", "prune", "answer"})
      BY <1>1
  <2> HIDE DEF Serves, Sources, Backed, Shown, Outcome, SameRequest
  <2>2. CASE FaultImport(w)
    <3>1. Own'
      <4>1. CASE UNCHANGED history
          BY <1>1, <4>1
      <4>2. CASE \E c \in PartlyCopied(history[job[w].rel]) :
                    history' = [history EXCEPT ![job[w].rel] = c]
          BY <1>1, <4>2 DEF PartlyCopied
      <4>3. QED
          BY <2>2, <4>1, <4>2 DEF FaultImport
    <3>2. PICK step \in {"answer", "drop_unpacked"} :
              Hit(w, step) /\ (step = "drop_unpacked" => pc[w] # "drop_unpacked")
        BY <2>2, Branches DEF FaultImport
    <3>3. pc[w] \in ImportSteps /\ UNCHANGED <<current, previous>>
        BY <2>2 DEF FaultImport
    <3>4. QED
        BY <2>0, <2>1, <3>1, <3>2, <3>3
  <2>3. CASE FaultStage(w)
    <3>1. /\ Hit(w, "fail") /\ Own' /\ pc[w] = "stage"
        BY <1>1, <2>3 DEF FaultStage
    <3>2. QED
        BY <2>0, <2>1, <3>1
  <2>4. CASE FaultBackup(w)
    <3>1. /\ Hit(w, "fail") /\ Own' /\ pc[w] = "backup"
        BY <1>1, <2>4 DEF FaultBackup
    <3>2. QED
        BY <2>0, <2>1, <3>1
  <2>5. CASE FaultIncoming(w)
    <3>1. /\ Hit(w, AfterRaise(w)) /\ Own' /\ pc[w] = "incoming"
        BY <1>1, <2>5 DEF FaultIncoming
    <3>2. /\ AfterRaise(w) \in {"fail", "answer"} /\ job[w].journal # "completed"
          /\ AfterRaise(w) = "fail" => job[w].op \in Deploys
        BY <2>0, <3>1 DEF AfterRaise
    <3>3. QED
        BY <2>1, <3>1, <3>2
  <2>6. CASE FaultSwitch(w)
    <3>1. /\ Hit(w, "undo_drop") /\ Own' /\ pc[w] \in ReplaceSteps /\ UNCHANGED previous
        BY <1>1, <2>6 DEF FaultSwitch
    <3>2. QED
        BY <2>0, <2>1, <3>1
  <2>7. CASE FaultUndo(w)
    <3>1. /\ Hit(w, AfterRaise(w)) /\ Own' /\ pc[w] \in {"undo_drop", "undo_restore"}
        BY <1>1, <2>7 DEF FaultUndo
    <3>2. /\ AfterRaise(w) \in {"fail", "answer"} /\ job[w].journal # "completed"
          /\ AfterRaise(w) = "fail" => job[w].op \in Deploys
        BY <2>0, <3>1 DEF AfterRaise
    <3>3. QED
        BY <2>1, <3>1, <3>2
  <2>8. CASE FaultCheckLive(w)
    <3>1. /\ Hit(w, "restore") /\ Own' /\ pc[w] = "check_live" /\ UNCHANGED dirs
        BY <1>1, <2>8 DEF FaultCheckLive, dirs
    <3>2. QED
        BY <2>0, <2>1, <3>1
  <2>9. CASE FaultClearLive(w)
    <3>1. /\ Hit(w, "fail") /\ Own' /\ pc[w] = "restore"
        BY <1>1, <2>9 DEF FaultClearLive
    <3>2. QED
        BY <2>0, <2>1, <3>1
  <2>10. CASE FaultRollback(w)
    <3>1. /\ Hit(w, IF job[w].nested THEN "fail" ELSE "answer") /\ Own'
          /\ pc[w] \in {"rb_check", "rb_archive", "rb_done"}
        BY <1>1, <2>10 DEF FaultRollback
    <3>2. job[w].journal # "completed" /\ (job[w].nested => job[w].op \in Deploys)
        BY <2>0, <3>1
    <3>3. QED
        BY <2>1, <3>1, <3>2
  <2>11. CASE FaultDropStage(w)
    <3>1. /\ Hit(w, "answer") /\ Own' /\ UNCHANGED <<current, previous>>
        BY <1>1, <2>11 DEF FaultDropStage
    <3>2. QED
        BY <2>1, <3>1
  <2>12. CASE FaultPrune(w)
    <3>1. Hit(w, "answer") /\ UNCHANGED <<current, previous>>
        BY <2>12 DEF FaultPrune
    <3>2. Own'
        BY <1>1, <2>12 DEF FaultPrune, PartlyRemoved
    <3>3. QED
        BY <2>1, <3>1, <3>2
  <2>13. QED
      BY <1>9, <2>2, <2>3, <2>4, <2>5, <2>6, <2>7, <2>8, <2>9, <2>10, <2>11, <2>12
      DEF Fault
<1>10. CASE Crash
  <2>1. Own'
    <3>1. /\ history' \in [Releases -> Content]
          /\ \A r \in Releases : history'[r] \in PartlyCopied(history[r])
        BY <1>10 DEF Crash, PartlyCopied
    <3>2. QED
        BY <1>1, <3>1 DEF PartlyCopied
  <2>2. pc'[w] = "idle" /\ job'[w] = NoJob
      BY <1>10 DEF Crash
  <2>3. QED
      BY <2>1, <2>2 DEF NoJob, NewJob
<1>11. QED
    BY <1>0, <1>2, <1>3, <1>4, <1>5, <1>6, <1>7, <1>8, <1>9, <1>10 DEF Next

LEMMA RequestStep ==
    ASSUME OneAtATime, RequestInv, [Next]_vars
    PROVE  RequestInv'
<1>1. Typed'
    BY TypeNext, NamesNext DEF RequestInv, Typed
<1>2. ASSUME NEW w \in Workers PROVE Serves(w)' /\ Own'
  <2>1. CASE Next
      BY <2>1, RequestNext
  <2>2. CASE UNCHANGED vars
      BY <2>2 DEF vars, dirs, RequestInv, Serves, Own, Route, Sources, Backed, Shown,
         Outcome, Refused, OnCourse, Goal
  <2>3. QED
      BY <2>1, <2>2
<1>3. QED
    BY <1>1, <1>2, WorkerAssumption DEF RequestInv

\* Requests served one at a time: a journal that says completed tells the
\* truth, whatever errors and crashes came before.
THEOREM CompletedDeploySafe ==
    ASSUME OneAtATime
    PROVE  Spec => []CompletedDeployKeepsBoth
<1>1. RequestInv /\ [Next]_vars => RequestInv'
    BY RequestStep
<1>2. RequestInv => CompletedDeployKeepsBoth
    BY DEF RequestInv, Serves, Outcome, CompletedDeployKeepsBoth, Answered, Deploys
<1>3. QED
    BY RequestInit, <1>1, <1>2, PTL DEF Spec

\* Requests served one at a time: what errors and crashes left behind never
\* makes a request fail that meets no error of its own.
THEOREM NoResidueSafe ==
    ASSUME OneAtATime
    PROVE  Spec => []NoResidueWedgesTheStore
<1>1. RequestInv /\ [Next]_vars => RequestInv'
    BY RequestStep
<1>2. RequestInv => NoResidueWedgesTheStore
    BY DEF RequestInv, Serves, Outcome, Refused, NoResidueWedgesTheStore
<1>3. QED
    BY RequestInit, <1>1, <1>2, PTL DEF Spec

(***************************************************************************)
(* What one error undoes.  The two renames of the switch are the exception:*)
(* an error between them, or in the removal of the directory moved aside,  *)
(* makes the except clause remove the wrong directory, so such errors are  *)
(* assumed away here, as the run which checks these properties does.       *)
(***************************************************************************)
SwitchFaults == {"retire", "drop_retired"}

Undone(w) ==
    /\ pc[w] \in {"undo_drop", "undo_restore"} /\ job[w].hits <= 1 =>
          /\ ~job[w].nested /\ current = Absent
          /\ IF job[w].moved THEN retired = job[w].before /\ retired # Absent
                             ELSE job[w].before = Absent
    /\ job[w].journal = "failed" => pc[w] \in {"drop_stage", "answer"} /\ ~job[w].ok
    /\ pc[w] = "fail" \/ job[w].journal = "failed" =>
          (job[w].hits <= 1 /\ job[w].before # Torn => Same(current, job[w].before))
    /\ pc[w] \in {"prune", "answer"} /\ job[w].op = "rollback" /\ job[w].hits <= 1 =>
          Same(current, job[w].before) \/ current = previous

UndoInv == RequestInv /\ \A w \in Workers : Undone(w)

LEMMA UndoInit == Init => UndoInv
BY RequestInit DEF Init, UndoInv, Undone, NoJob, NewJob

LEMMA UndoNext ==
    ASSUME OneAtATime, FaultPoints \cap SwitchFaults = {}, UndoInv, Next, NEW w \in Workers
    PROVE  Undone(w)'
<1>0. \A u \in Workers : u = w
    BY DEF OneAtATime
<1>1. WellTyped(w) /\ Serves(w) /\ Undone(w)
    BY JobTypes DEF UndoInv, RequestInv
<1>h. ASSUME NEW step, Hit(w, step)
      PROVE  /\ pc'[w] = step /\ SameRequest(w) /\ job'[w].nested = job[w].nested
             /\ job'[w].moved = job[w].moved /\ job'[w].from = job[w].from
             /\ job'[w].journal = job[w].journal
             /\ job'[w].hits = job[w].hits + 1 /\ job'[w].ok = FALSE
    BY <1>1, <1>h, HitFacts, Zenon
<1>d. /\ job[w].op \in Imports \cup Deploys => job[w].op # "rollback"
      /\ job[w].journal = "failed" => pc[w] \in {"drop_stage", "answer"} /\ ~job[w].ok
    BY <1>1 DEF Imports, Deploys, Undone
<1> USE ContentAssumption
    DEF WellTyped, Serves, Route, Sources, Backed, Shown, Outcome, OnCourse, Goal, Undone,
        Same, ImportSteps, DeploySteps, ReplaceSteps, RollbackSteps, Switching, Forward, Ahead,
        LookupSteps, Complete, HasFiles, SameRequest, Content
<1>2. CASE Accept(w)
    BY <1>1, <1>2 DEF Accept, Goto, FirstStep, NewJob, Ops, Imports, Archives, Deploys
<1>3. CASE Reply(w)
    BY <1>1, <1>3 DEF Reply, Goto, NoJob, NewJob
<1>4. CASE Import(w)
  <2> USE DEF Goto, dirs
  <2>1. CASE Unpack(w) BY <1>1, <2>1 DEF Unpack
  <2>2. CASE CheckSource(w)
    <3>1. /\ pc'[w] \in {"drop_history", "drop_unpacked", "answer"}
          /\ job[w].op # "rollback" /\ job[w].journal # "failed"
        BY <1>1, <1>d, <2>2, Branches DEF CheckSource
    <3>2. job'[w].op = job[w].op /\ job'[w].journal = job[w].journal
      <4>1. \/ UNCHANGED job
            \/ job' = [job EXCEPT ![w].ok = FALSE, ![w].hits = @ + 1]
          BY <2>2 DEF CheckSource
      <4>2. job \in [Workers -> Job]
          BY <1>1
      <4>3. QED
          BY <4>1, <4>2, ZenonT(30) DEF Job
    <3>3. QED
        BY <3>1, <3>2
  <2>3. CASE DropHistory(w) BY <1>1, <2>3 DEF DropHistory
  <2>4. CASE FillHistory(w) BY <1>1, <2>4 DEF FillHistory, AfterImport
  <2>5. CASE DropUnpacked(w) BY <1>1, <2>5 DEF DropUnpacked, AfterImport
  <2>6. QED BY <1>4, <2>1, <2>2, <2>3, <2>4, <2>5 DEF Import
<1>5. CASE Deploy(w)
  <2> USE DEF Goto, dirs
  <2>1. CASE Preflight(w)
    <3>1. /\ job[w].op # "rollback" /\ current = job[w].before
          /\ pc'[w] \in {"answer", "stage", "fail"} /\ current' = current
        BY <1>1, <1>d, <2>1 DEF Preflight
    <3>2. /\ job'[w].op = job[w].op /\ job'[w].before = job[w].before
          /\ job'[w].journal # "failed"
      <4>1. \/ job' = [job EXCEPT ![w].ok = FALSE]
            \/ \E b, c : job' = [job EXCEPT ![w].had = b, ![w].journal = "running", ![w].ok = c]
          BY <2>1, Zenon DEF Preflight, Errs
      <4>2. job \in [Workers -> Job] /\ job[w].journal = "none" /\ "running" # "failed"
          BY <1>1, <2>1 DEF Preflight
      <4>3. CASE job' = [job EXCEPT ![w].ok = FALSE]
          BY <4>2, <4>3, ZenonT(30) DEF Job
      <4>4. ASSUME NEW b, NEW c,
                   job' = [job EXCEPT ![w].had = b, ![w].journal = "running", ![w].ok = c]
            PROVE  /\ job'[w].op = job[w].op /\ job'[w].before = job[w].before
                   /\ job'[w].journal # "failed"
          BY <4>2, <4>4, ZenonT(30) DEF Job
      <4>5. QED
          BY <4>1, <4>3, <4>4
    <3>3. QED
        BY <3>1, <3>2
  <2>2. CASE Stage(w) BY <1>1, <2>2, ErrsFields DEF Stage
  <2>3. CASE Backup(w) BY <1>1, <2>3, ErrsFields DEF Backup
  <2>4. CASE CheckLive(w)
    <3>1. Complete(current)
        BY <1>1, <2>4 DEF CheckLive, Deploys
    <3>2. pc'[w] = "drop_stage" /\ job[w].op # "rollback"
        BY <1>1, <1>d, <2>4, <3>1 DEF CheckLive
    <3>3. SameRequest(w) /\ job'[w].journal = "completed"
        BY <1>1, <2>4, <3>1, JournalFields DEF CheckLive
    <3>4. QED
        BY <3>2, <3>3
  <2>5. CASE RestoreByRollback(w) BY <1>1, <2>5, NestedFields DEF RestoreByRollback
  <2>6. CASE ClearLive(w) BY <1>1, <2>6 DEF ClearLive, CanRollBack
  <2>7. CASE Fail(w) BY <1>1, <2>7, JournalFields DEF Fail
  <2>8. CASE DropStage(w) BY <1>1, <1>d, <2>8 DEF DropStage
  <2>9. QED BY <1>5, <2>1, <2>2, <2>3, <2>4, <2>5, <2>6, <2>7, <2>8 DEF Deploy
<1>6. CASE Replace(w)
  <2> USE DEF Goto, dirs
  <2>1. CASE Incoming(w)
    <3>1. Source(w) # Absent /\ job[w].journal # "failed"
        BY <1>1, <1>d, <2>1 DEF Incoming, Source, Deploys
    <3>2. pc'[w] = "retire" /\ job' = [job EXCEPT ![w].moved = FALSE]
        BY <1>1, <2>1, <3>1 DEF Incoming
    <3>3. job'[w].journal = job[w].journal
        BY <1>1, <3>2, MovedFields
    <3>4. QED
        BY <3>1, <3>2, <3>3
  <2>2. CASE Retire(w) BY <1>1, <2>2, MovedFields DEF Retire
  <2>3. CASE Publish(w) BY <1>1, <2>3 DEF Publish
  <2>4. CASE DropRetired(w) BY <1>1, <2>4 DEF DropRetired
  <2>5. CASE UndoDrop(w) BY <1>1, <2>5 DEF UndoDrop
  <2>6. CASE UndoRestore(w) BY <1>1, <2>6, ErrsFields DEF UndoRestore, AfterRaise
  <2>7. QED BY <1>6, <2>1, <2>2, <2>3, <2>4, <2>5, <2>6 DEF Replace
<1>7. CASE Rollback(w)
  <2> USE DEF Goto, dirs
  <2>1. CASE RbCheck(w)
    <3>1. /\ pc'[w] \in {"rb_archive", "answer", "fail"} /\ UNCHANGED <<current, previous>>
          /\ pc'[w] = "answer" => ~job[w].nested
          /\ pc'[w] = "fail" => job[w].nested /\ ~Complete(previous)
          /\ job[w].nested <=> job[w].op # "rollback"
          /\ job[w].journal # "failed"
          /\ ~job[w].nested => current = job[w].before
        BY <1>1, <1>d, <2>1 DEF RbCheck
    <3>2. /\ SameRequest(w) /\ job'[w].journal = job[w].journal
          /\ job'[w].hits = job[w].hits
      <4>1. CASE Complete(previous)
          BY <1>1, <2>1, <4>1, FromFields DEF RbCheck
      <4>2. CASE ~Complete(previous)
          BY <1>1, <2>1, <4>2, ErrsFields DEF RbCheck
      <4>3. QED
          BY <4>1, <4>2
    <3>3. job[w].nested => HasFiles(job[w].before) /\ previous = job[w].before
        BY <1>1, <2>1 DEF RbCheck
    <3>4. job[w].before \in Content
        BY <1>1
    <3>5. QED
        BY <3>1, <3>2, <3>3, <3>4
  <2>2. CASE RbArchive(w) BY <1>1, <2>2 DEF RbArchive
  <2>3. CASE RbDone(w) BY <1>1, <2>3, JournalFields DEF RbDone
  <2>4. QED BY <1>7, <2>1, <2>2, <2>3 DEF Rollback
<1>8. CASE Prune(w)
    BY <1>1, <1>d, <1>8 DEF Prune, Goto
<1>9. CASE Fault(w)
  <2>1. ASSUME NEW step \in {"fail", "answer", "undo_drop", "drop_unpacked", "restore"},
               Hit(w, step),
               step = "undo_drop" =>
                   pc[w] = "publish" /\ UNCHANGED <<current, retired>>,
               step = "fail" /\ job[w].hits = 0 /\ job[w].before # Torn =>
                   Same(current', job[w].before),
               step = "answer" /\ job[w].op = "rollback" /\ job[w].hits = 0 =>
                   Same(current', job[w].before) \/ current' = previous',
               job[w].journal = "failed" => step = "answer" /\ UNCHANGED current
        PROVE  Undone(w)'
    <3>1. /\ pc'[w] = step /\ SameRequest(w) /\ job'[w].nested = job[w].nested
          /\ job'[w].moved = job[w].moved /\ job'[w].journal = job[w].journal
          /\ job'[w].hits = job[w].hits + 1 /\ job'[w].ok = FALSE
        BY <1>h, <2>1, Zenon
    <3>2. job[w].hits \in Nat /\ (job'[w].hits <= 1 => job[w].hits = 0)
        BY <1>1, <3>1
    <3>3. step = "undo_drop" /\ job'[w].hits <= 1 =>
              /\ ~job[w].nested /\ current' = Absent
              /\ IF job[w].moved THEN retired' = job[w].before /\ retired' # Absent
                                 ELSE job[w].before = Absent
        BY <1>1, <2>1, <3>2
    <3>4. job[w].journal = "failed" /\ job[w].hits = 0 /\ job[w].before # Torn =>
              Same(current', job[w].before)
        BY <1>1, <2>1
    <3>5. QED
        BY <2>1, <3>1, <3>2, <3>3, <3>4
  <2> USE DEF dirs
  <2>2. CASE FaultImport(w)
    <3>1. PICK step \in {"answer", "drop_unpacked"} : Hit(w, step)
        BY <2>2, Branches DEF FaultImport
    <3>2. job[w].op # "rollback" /\ job[w].journal # "failed"
        BY <1>1, <1>d, <2>2 DEF FaultImport
    <3>3. QED
        BY <2>1, <3>1, <3>2
  <2>3. CASE FaultStage(w)
    <3>1. /\ Hit(w, "fail") /\ job[w].journal # "failed"
          /\ current' = job[w].before
        BY <1>1, <1>d, <2>3 DEF FaultStage
    <3>2. QED
        BY <2>1, <3>1
  <2>4. CASE FaultBackup(w)
    <3>1. /\ Hit(w, "fail") /\ job[w].journal # "failed"
          /\ current' = job[w].before
        BY <1>1, <1>d, <2>4 DEF FaultBackup
    <3>2. QED
        BY <2>1, <3>1
  <2>5. CASE FaultIncoming(w)
    <3>1. /\ Hit(w, AfterRaise(w)) /\ AfterRaise(w) \in {"fail", "answer"}
          /\ job[w].journal # "failed"
          /\ job[w].hits = 0 => current' = job[w].before
        BY <1>1, <1>d, <2>5 DEF FaultIncoming, AfterRaise
    <3>2. QED
        BY <2>1, <3>1
  <2>6. CASE FaultSwitch(w)
    <3>1. /\ pc[w] = "publish" /\ Hit(w, "undo_drop") /\ UNCHANGED <<current, retired>>
          /\ job[w].journal # "failed"
        BY <1>d, <2>6 DEF FaultSwitch, SwitchFaults, Hit
    <3>2. QED
        BY <2>1, <3>1
  <2>7. CASE FaultUndo(w)
    <3>1. /\ Hit(w, AfterRaise(w)) /\ AfterRaise(w) \in {"fail", "answer"}
          /\ job[w].journal # "failed" /\ job[w].hits > 0
        BY <1>1, <1>d, <2>7 DEF FaultUndo, AfterRaise
    <3>2. QED
        BY <2>1, <3>1
  <2>8. CASE FaultCheckLive(w)
    <3>1. Hit(w, "restore") /\ job[w].journal # "failed"
        BY <1>d, <2>8 DEF FaultCheckLive
    <3>2. QED
        BY <2>1, <3>1
  <2>9. CASE FaultClearLive(w)
    <3>1. Hit(w, "fail") /\ job[w].journal # "failed" /\ job[w].hits > 0
        BY <1>1, <1>d, <2>9 DEF FaultClearLive
    <3>2. QED
        BY <2>1, <3>1
  <2>10. CASE FaultRollback(w)
    <3>1. /\ Hit(w, IF job[w].nested THEN "fail" ELSE "answer") /\ job[w].journal # "failed"
          /\ job[w].nested => job[w].hits > 0
          /\ UNCHANGED <<current, previous>>
        BY <1>1, <1>d, <2>10 DEF FaultRollback
    <3>2. ~job[w].nested => current = job[w].before \/ current = previous
        BY <1>1, <2>10 DEF FaultRollback
    <3>3. QED
        BY <1>1, <2>1, <3>1, <3>2
  <2>11. CASE FaultDropStage(w)
    <3>1. Hit(w, "answer") /\ job[w].op # "rollback" /\ UNCHANGED current
        BY <1>1, <1>d, <2>11 DEF FaultDropStage
    <3>2. QED
        BY <2>1, <3>1
  <2>12. CASE FaultPrune(w)
    <3>1. /\ Hit(w, "answer") /\ job[w].journal # "failed"
          /\ pc[w] = "prune" /\ UNCHANGED <<current, previous>>
        BY <1>d, <2>12 DEF FaultPrune
    <3>2. job[w].op = "rollback" /\ job[w].hits <= 1 =>
              Same(current, job[w].before) \/ current = previous
        BY <1>1, <3>1
    <3>3. QED
        BY <2>1, <3>1, <3>2
  <2>13. QED
      BY <1>9, <2>2, <2>3, <2>4, <2>5, <2>6, <2>7, <2>8, <2>9, <2>10, <2>11, <2>12 DEF Fault
<1>10. CASE Crash
  <2>1. pc'[w] = "idle" /\ job'[w] = NoJob
      BY <1>10 DEF Crash
  <2>2. QED
      BY <2>1 DEF NoJob, NewJob
<1>11. QED
    BY <1>0, <1>2, <1>3, <1>4, <1>5, <1>6, <1>7, <1>8, <1>9, <1>10 DEF Next

LEMMA UndoStep ==
    ASSUME OneAtATime, FaultPoints \cap SwitchFaults = {}, UndoInv, [Next]_vars
    PROVE  UndoInv'
<1>1. RequestInv'
    BY RequestStep DEF UndoInv
<1>2. ASSUME NEW w \in Workers PROVE Undone(w)'
  <2>1. CASE Next
      BY <2>1, UndoNext
  <2>2. CASE UNCHANGED vars
      BY <2>2 DEF vars, dirs, UndoInv, Undone, Same
  <2>3. QED
      BY <2>1, <2>2
<1>3. QED
    BY <1>1, <1>2 DEF UndoInv

\* Requests served one at a time, no error within the switch: a deployment
\* that failed on one error left live what was live.
THEOREM FailedDeploySafe ==
    ASSUME OneAtATime, FaultPoints \cap SwitchFaults = {}
    PROVE  Spec => []FailedDeployKeepsLive
<1>1. UndoInv /\ [Next]_vars => UndoInv'
    BY UndoStep
<1>2. UndoInv => FailedDeployKeepsLive
    BY DEF UndoInv, Undone, FailedDeployKeepsLive, Answered
<1>3. QED
    BY UndoInit, <1>1, <1>2, PTL DEF Spec

\* Under the same assumptions a rollback restores the rollback target or
\* leaves live what was live.
THEOREM RollbackSafe ==
    ASSUME OneAtATime, FaultPoints \cap SwitchFaults = {}
    PROVE  Spec => []RollbackIsAllOrNothing
<1>1. UndoInv /\ [Next]_vars => UndoInv'
    BY UndoStep
<1>2. UndoInv => RollbackIsAllOrNothing
    BY DEF UndoInv, RequestInv, Serves, Outcome, Undone, RollbackIsAllOrNothing, Answered
<1>3. QED
    BY UndoInit, <1>1, <1>2, PTL DEF Spec
=============================================================================
