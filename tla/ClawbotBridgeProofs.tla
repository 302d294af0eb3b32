------------------------ MODULE ClawbotBridgeProofs ------------------------
(***************************************************************************)
(* What holds of ClawbotBridge for every value of its constants: the types *)
(* of its state, no second reply without a cause, and no text dropped; and *)
(* of the envelope of its callbacks (CallbackEnvelope): what is sealed is  *)
(* opened again, for every body and block size.                            *)
(***************************************************************************)
EXTENDS ClawbotBridge, CallbackEnvelope, TLAPS

(***************************************************************************)
(* The invariant.  While a reply is being sent the message at the head of  *)
(* the page has no file yet; while its file is being written it has been   *)
(* answered.  So what was answered either has its file, or is the one      *)
(* being marked, or its file was lost on the way.                          *)
(***************************************************************************)
Places ==
    /\ pc = "idle" => want = "page"
    /\ pc \in {"token", "post"} /\ want = "reply" =>
         /\ todo # <<>> /\ Head(todo) \in Text
         /\ Head(todo) \in inbox /\ Id(Head(todo)) \notin processed
    /\ pc = "mark" =>
         /\ todo # <<>> /\ Head(todo) \in Text
         /\ Head(todo) \in inbox /\ replies[Head(todo)] > 0

Nameless(m) == m \in Unnamed /\ (m \in Direct \/ crashes > 0)

Remembered(m) ==
    \/ Id(m) \in processed
    \/ pc = "mark" /\ Head(todo) = m
    \/ m \in unsure
    \/ Nameless(m)

AnswersAreRemembered == \A m \in Messages : replies[m] > 0 => Remembered(m)

IInv ==
    /\ TypeOK /\ Places /\ AnswersAreRemembered
    /\ ProcessedTextWasAnswered /\ SecondReplyHasACause

-----------------------------------------------------------------------------
(* Lemmas about ids and pages *)

LEMMA BoundsType ==
    /\ MaxFaults \in Nat /\ MaxCrashes \in Nat /\ MaxPages \in Nat /\ MaxPages > 0
    /\ PageSize \in Nat
BY ClawbotAssumption

LEMMA IdType ==
    ASSUME TypeOK, NEW m \in Messages
    PROVE  Id(m) \in Ids
<1>1. crashes \in Nat /\ stamp \in Nat
  BY ClawbotAssumption DEF TypeOK
<1>. QED
  BY <1>1 DEF Id, Ids

\* The id of a named message is no other message's.
LEMMA NamedIdIsUnique ==
    ASSUME NEW m \in Messages \ Unnamed, NEW h \in Messages, Id(h) = Id(m)
    PROVE  h = m
BY ClawbotAssumption DEF Id

\* Where nothing excuses a second reply, an id does not change.
LEMMA IdIsStable ==
    ASSUME TypeOK, NEW m \in Messages, ~Nameless(m)
    PROVE  Id(m) = <<m, 0>>
<1>1. crashes \in Nat
  BY ClawbotAssumption DEF TypeOK
<1>2. m \in Unnamed => m \notin Direct /\ crashes = 0
  BY <1>1 DEF Nameless
<1>. QED
  BY <1>2 DEF Id

LEMMA PageType ==
    ASSUME TypeOK
    PROVE  Page(cursor) \in Seq(Messages) /\ Len(Page(cursor)) \in Nat
<1>. DEFINE last == IF cursor + PageSize <= Len(log) THEN cursor + PageSize ELSE Len(log)
<1>1. cursor \in Nat /\ PageSize \in Nat /\ log \in Seq(Messages) /\ Len(log) \in Nat
  BY ClawbotAssumption DEF TypeOK
<1>2. last \in Nat /\ last <= Len(log)
  BY <1>1
<1>. HIDE DEF last
<1>3. SubSeq(log, cursor + 1, last) \in Seq(Messages)
  BY <1>1, <1>2
<1>. QED
  BY <1>3 DEF Page, last

LEMMA TodoType ==
    ASSUME TypeOK, todo # <<>>
    PROVE  Head(todo) \in Messages /\ Tail(todo) \in Seq(Messages)
BY DEF TypeOK

LEMMA RepliedType ==
    ASSUME TypeOK, Head(todo) \in Messages
    PROVE  /\ Replied \in [Messages -> 0..2]
           /\ Replied[Head(todo)] > 0
           /\ Replied[Head(todo)] = 2 => replies[Head(todo)] > 0
           /\ \A m \in Messages \ {Head(todo)} : Replied[m] = replies[m]
<1>. DEFINE h == Head(todo)
            n == IF replies[h] < 2 THEN replies[h] + 1 ELSE replies[h]
<1>1. replies \in [Messages -> 0..2] /\ h \in Messages
  BY DEF TypeOK
<1>2. replies[h] \in 0..2
  BY <1>1
<1>3. n \in 0..2 /\ n > 0 /\ (n = 2 => replies[h] > 0)
  BY <1>2
<1>4. Replied = [replies EXCEPT ![h] = n]
  BY DEF Replied
<1>. HIDE DEF h, n
<1>5. Replied \in [Messages -> 0..2] /\ Replied[h] = n
  BY <1>1, <1>3, <1>4
<1>6. \A m \in Messages \ {h} : Replied[m] = replies[m]
  BY <1>1, <1>4
<1>. QED
  BY <1>3, <1>5, <1>6 DEF h

-----------------------------------------------------------------------------
LEMMA InitInv == Init => IInv
<1>. SUFFICES ASSUME Init PROVE IInv
  OBVIOUS
<1>1. TypeOK
  <2>1. 0 \in 0..MaxFaults /\ 0 \in 0..MaxCrashes /\ 0 \in 0..MaxPages
    BY BoundsType
  <2>2. <<>> \in Seq(Messages)
    OBVIOUS
  <2>3. replies \in [Messages -> 0..2]
    BY DEF Init
  <2>. QED
    BY <2>1, <2>2, <2>3 DEF Init, TypeOK
<1>. QED
  BY <1>1 DEF Init, IInv, Places, AnswersAreRemembered, ProcessedTextWasAnswered,
               SecondReplyHasACause

(* Types are kept. *)
LEMMA TypeStep ==
    ASSUME TypeOK, Places, [Next]_vars
    PROVE  TypeOK'
<1>. USE DEF TypeOK
<1>1. ASSUME NEW m \in Messages, Arrive(m) PROVE TypeOK'
  BY <1>1 DEF Arrive, files, bounds, request, sync, observers
<1>2. ASSUME NEW c \in Callbacks, Post(c) PROVE TypeOK'
  BY <1>2 DEF Post, files, bounds, request, sync, observers
<1>3. ASSUME NEW c \in Callbacks, Take(c) PROVE TypeOK'
  <2>1. c # Sync => c \in Messages /\ <<c>> \in Seq(Messages)
    BY ClawbotAssumption DEF Callbacks
  <2>2. 1 \in 0..MaxPages
    BY BoundsType
  <2>3. todo' \in Seq(Messages) /\ page' \in 0..MaxPages
    BY <1>3, <2>1, <2>2 DEF Take
  <2>4. stamp' \in Nat
    BY <1>3, ClawbotAssumption DEF Take
  <2>. QED
    BY <1>3, <2>3, <2>4 DEF Take, files, bounds, request, observers
<1>4. ASSUME NEW c \in Callbacks, Reject(c) PROVE TypeOK'
  BY <1>4, ClawbotAssumption DEF Reject, files, request, sync, observers
<1>5. CASE Reissue
  BY <1>5 DEF Reissue, files, bounds, request, sync, observers
<1>6. CASE Expire
  BY <1>6 DEF Expire, platform, bounds, request, sync, observers
<1>7. CASE UseCachedToken
  BY <1>7 DEF UseCachedToken, platform, files, bounds, sync, observers
<1>8. CASE FetchToken
  BY <1>8 DEF FetchToken, platform, bounds, sync, observers
<1>9. CASE PostAgain
  BY <1>9 DEF PostAgain, platform, files, bounds, sync, observers
<1>10. ASSUME Return PROVE /\ pc' = "idle" /\ call' \in Callbacks \union {None}
                           /\ want' \in {"page", "reply"} /\ force' \in BOOLEAN /\ token' \in Nat
                           /\ page' \in 0..MaxPages /\ todo' \in Seq(Messages) /\ cursor' \in Nat
                           /\ more' \in BOOLEAN /\ stamp' \in Nat
  <2>1. 0 \in 0..MaxPages
    BY BoundsType
  <2>2. <<>> \in Seq(Messages)
    OBVIOUS
  <2>. QED
    BY <1>10, <2>1, <2>2 DEF Return
<1>11. CASE RefusedAgain \/ ReplyRefused
  BY <1>10, <1>11 DEF RefusedAgain, ReplyRefused, Raise, platform, files, observers
<1>12. CASE ReadPage
  <2>1. todo' \in Seq(Messages) /\ cursor' \in Nat /\ more' \in BOOLEAN
    BY <1>12, PageType DEF ReadPage
  <2>. QED
    BY <1>12, <2>1 DEF ReadPage, platform, files, bounds, request, observers
<1>13. CASE SkipProcessed
  BY <1>13, TodoType DEF SkipProcessed, platform, files, bounds, request, observers
<1>14. CASE SkipUnsupported
  <2>1. processed' \subseteq Ids
    BY <1>14, IdType, TodoType DEF SkipUnsupported
  <2>. QED
    BY <1>14, <2>1, TodoType DEF SkipUnsupported, platform, bounds, request, observers
<1>15. CASE Answer
  BY <1>15, TodoType DEF Answer, platform, bounds, sync, observers
<1>16. CASE SendReply
  <2>1. replies' \in [Messages -> 0..2]
    BY <1>16, RepliedType, TodoType DEF SendReply, Places
  <2>. QED
    BY <1>16, <2>1 DEF SendReply, platform, files, bounds, request, sync
<1>17. CASE MarkProcessed
  <2>1. processed' \subseteq Ids /\ todo' \in Seq(Messages)
    BY <1>17, IdType, TodoType DEF MarkProcessed, Places
  <2>. QED
    BY <1>17, <2>1 DEF MarkProcessed, platform, bounds, request, observers
<1>18. CASE NextPage
  <2>1. page' \in 0..MaxPages
    BY <1>18, ClawbotAssumption DEF NextPage
  <2>. QED
    BY <1>18, <2>1 DEF NextPage, platform, files, bounds, observers
<1>19. CASE Finish
  BY <1>10, <1>19 DEF Finish, platform, files, bounds, observers
<1>20. ASSUME BrokenOff
       PROVE  /\ Return /\ log' = log /\ valid' = valid /\ inbox' = inbox /\ replies' = replies
              /\ cache' \in Nat /\ processed' \subseteq Ids /\ unsure' \subseteq Messages
  <2>1. cache' \in Nat
    BY <1>20 DEF BrokenOff
  <2>2. processed' \subseteq Ids /\ unsure' \subseteq Messages
    BY <1>20, IdType, TodoType DEF BrokenOff, Places
  <2>. QED
    BY <1>20, <2>1, <2>2 DEF BrokenOff
<1>21. CASE Fail
  <2>1. faults' \in 0..MaxFaults
    BY <1>21, ClawbotAssumption DEF Fail
  <2>. QED
    BY <1>10, <1>20, <1>21, <2>1 DEF Fail
<1>22. CASE FailAfterReply
  <2>1. faults' \in 0..MaxFaults
    BY <1>22, ClawbotAssumption DEF FailAfterReply
  <2>2. replies' \in [Messages -> 0..2]
    BY <1>22, RepliedType, TodoType DEF FailAfterReply, Places
  <2>3. unsure' \subseteq Messages
    BY <1>22, TodoType DEF FailAfterReply, Places
  <2>. QED
    BY <1>10, <1>22, <2>1, <2>2, <2>3 DEF FailAfterReply, Raise, platform, files
<1>23. CASE Crash
  <2>1. crashes' \in 0..MaxCrashes
    BY <1>23, ClawbotAssumption DEF Crash
  <2>. QED
    BY <1>10, <1>20, <1>23, <2>1 DEF Crash
<1>24. CASE UNCHANGED vars
  BY <1>24 DEF vars, platform, files, bounds, request, sync, observers
<1>. QED
  BY <1>1, <1>2, <1>3, <1>4, <1>5, <1>6, <1>7, <1>8, <1>9, <1>11, <1>12, <1>13, <1>14, <1>15,
     <1>16, <1>17, <1>18, <1>19, <1>21, <1>22, <1>23, <1>24 DEF Next, Step

-----------------------------------------------------------------------------
(* Where the handler stands. *)
LEMMA PlacesStep ==
    ASSUME TypeOK, Places, [Next]_vars
    PROVE  Places'
<1>1. ASSUME UNCHANGED <<want, todo, inbox, processed, replies, stamp, crashes>>,
             \/ UNCHANGED pc
             \/ pc \in {"token", "post"} /\ pc' \in {"token", "post"}
      PROVE  Places'
  BY <1>1 DEF Places, Id
<1>2. \A m \in Messages : Arrive(m) => Places'
  BY <1>1 DEF Arrive, files, bounds, request, sync, observers
<1>3. \A c \in Callbacks : Post(c) \/ Reject(c) => Places'
  BY <1>1 DEF Post, Reject, files, bounds, request, sync, observers
<1>4. \A c \in Callbacks : Take(c) => Places'
  BY DEF Take, Places, request
<1>5. CASE Reissue \/ Expire
  BY <1>1, <1>5 DEF Reissue, Expire, files, bounds, request, sync, observers
<1>6. CASE UseCachedToken \/ FetchToken \/ PostAgain
  BY <1>1, <1>6 DEF UseCachedToken, FetchToken, PostAgain, files, bounds, sync, observers
<1>7. CASE Return
  BY <1>7 DEF Return, Places
<1>8. CASE ReadPage \/ SkipProcessed \/ SkipUnsupported \/ MarkProcessed
  <2>1. pc' = "scan"
    BY <1>8 DEF ReadPage, SkipProcessed, SkipUnsupported, MarkProcessed
  <2>. QED
    BY <2>1 DEF Places
<1>9. CASE Answer
  BY <1>9 DEF Answer, Places, Id, bounds, sync
<1>10. CASE SendReply
  <2>1. Head(todo) \in Messages /\ Replied[Head(todo)] > 0
    BY <1>10, TodoType, RepliedType DEF SendReply, Places
  <2>. QED
    BY <1>10, <2>1 DEF SendReply, Places, files, sync
<1>11. CASE NextPage
  BY <1>11 DEF NextPage, Places
<1>12. CASE UNCHANGED vars
  BY <1>1, <1>12 DEF vars, files, bounds, request, sync, observers
<1>. QED
  BY <1>2, <1>3, <1>4, <1>5, <1>6, <1>7, <1>8, <1>9, <1>10, <1>11, <1>12
     DEF Next, Step, RefusedAgain, ReplyRefused, Raise, Finish, Fail, FailAfterReply, Crash,
         BrokenOff

-----------------------------------------------------------------------------
(* Most steps change nothing that the other three invariants speak of. *)
Quiet ==
    /\ UNCHANGED <<processed, replies, unsure, crashes>>
    /\ inbox \subseteq inbox'
    /\ pc = "mark" => UNCHANGED <<pc, todo>>

LEMMA StepKinds ==
    ASSUME [Next]_vars
    PROVE  \/ Quiet \/ SkipUnsupported \/ SendReply \/ MarkProcessed
           \/ Fail \/ FailAfterReply \/ Crash
<1>. USE DEF Quiet
<1>1. \A m \in Messages : Arrive(m) => Quiet
  BY DEF Arrive, files, bounds, sync, observers
<1>2. \A c \in Callbacks : Post(c) \/ Take(c) \/ Reject(c) => Quiet
  BY DEF Post, Take, Reject, files, bounds, sync, observers
<1>3. Reissue \/ Expire => Quiet
  BY DEF Reissue, Expire, files, bounds, sync, observers
<1>4. UseCachedToken \/ FetchToken \/ PostAgain \/ ReadPage => Quiet
  BY DEF UseCachedToken, FetchToken, PostAgain, ReadPage, files, bounds, observers
<1>5. RefusedAgain \/ ReplyRefused => Quiet
  BY DEF RefusedAgain, ReplyRefused, Raise, files, observers
<1>6. SkipProcessed \/ Answer \/ NextPage \/ Finish => Quiet
  BY DEF SkipProcessed, Answer, NextPage, Finish, files, bounds, observers
<1>7. UNCHANGED vars => Quiet
  BY DEF vars, files, bounds, sync, observers
<1>. QED
  BY <1>1, <1>2, <1>3, <1>4, <1>5, <1>6, <1>7 DEF Next, Step

(* What was answered stays remembered. *)
LEMMA KeepsRemembered ==
    ASSUME TypeOK, TypeOK', NEW m \in Messages, Remembered(m),
           processed \subseteq processed', unsure \subseteq unsure', crashes <= crashes',
           pc = "mark" /\ Head(todo) = m => Remembered(m)'
    PROVE  Remembered(m)'
<1>1. crashes \in Nat /\ crashes' \in Nat
  BY BoundsType DEF TypeOK
<1>2. CASE Nameless(m)'
  BY <1>2 DEF Remembered
<1>3. CASE ~Nameless(m)'
  <2>1. ~Nameless(m)
    BY <1>1, <1>3 DEF Nameless
  <2>2. Id(m) = <<m, 0>>
    BY <2>1, IdIsStable
  <2>3. Id(m)' = <<m, 0>>
    BY <1>1, <1>3 DEF Nameless, Id
  <2>. QED
    BY <2>1, <2>2, <2>3 DEF Remembered
<1>. QED
  BY <1>2, <1>3

LEMMA RememberedStep ==
    ASSUME TypeOK, TypeOK', Places, AnswersAreRemembered, [Next]_vars
    PROVE  AnswersAreRemembered'
<1>. SUFFICES ASSUME NEW m \in Messages, replies'[m] > 0
              PROVE  Remembered(m)'
  BY DEF AnswersAreRemembered
<1>1. crashes \in Nat /\ crashes' \in Nat
  BY BoundsType DEF TypeOK
<1>2. replies[m] > 0 => Remembered(m)
  BY DEF AnswersAreRemembered
<1>3. CASE Quiet
  BY <1>1, <1>2, <1>3, KeepsRemembered DEF Quiet, Remembered
<1>4. CASE SkipUnsupported
  BY <1>1, <1>2, <1>4, KeepsRemembered DEF SkipUnsupported, bounds, observers
<1>5. CASE SendReply
  <2>1. CASE m = Head(todo)
    BY <1>5, <2>1 DEF SendReply, sync, Remembered
  <2>2. CASE m # Head(todo)
    <3>1. replies[m] > 0
      BY <1>5, <2>2, TodoType, RepliedType DEF SendReply, Places
    <3>. QED
      BY <1>1, <1>2, <1>5, <3>1, KeepsRemembered DEF SendReply, files, bounds
  <2>. QED
    BY <2>1, <2>2
<1>6. CASE MarkProcessed
  <2>1. m = Head(todo) => Remembered(m)'
    BY <1>6 DEF MarkProcessed, bounds, Id, Remembered
  <2>. QED
    BY <1>1, <1>2, <1>6, <2>1, KeepsRemembered DEF MarkProcessed, bounds, observers
<1>7. ASSUME BrokenOff, crashes <= crashes'
      PROVE  Remembered(m)'
  <2>1. replies[m] > 0 /\ processed \subseteq processed' /\ unsure \subseteq unsure'
    BY <1>7 DEF BrokenOff
  <2>2. ASSUME pc = "mark", Head(todo) = m, ~Nameless(m)'
        PROVE  Remembered(m)'
    <3>1. ~Nameless(m) /\ Id(m) = <<m, 0>>
      BY <1>1, <1>7, <2>2, IdIsStable DEF Nameless
    <3>2. Id(m)' = <<m, 0>>
      BY <1>1, <2>2 DEF Nameless, Id
    <3>3. Id(m) \in processed' \/ m \in unsure'
      BY <1>7, <2>2 DEF BrokenOff
    <3>. QED
      BY <3>1, <3>2, <3>3 DEF Remembered
  <2>3. Nameless(m)' => Remembered(m)'
    BY DEF Remembered
  <2>. QED
    BY <1>2, <1>7, <2>1, <2>2, <2>3, KeepsRemembered
<1>8. CASE Fail
  BY <1>1, <1>7, <1>8 DEF Fail
<1>9. CASE FailAfterReply
  <2>1. CASE m = Head(todo)
    BY <1>9, <2>1 DEF FailAfterReply, Remembered
  <2>2. CASE m # Head(todo)
    <3>1. replies[m] > 0
      BY <1>9, <2>2, TodoType, RepliedType DEF FailAfterReply, Places
    <3>. QED
      BY <1>1, <1>2, <1>9, <3>1, KeepsRemembered DEF FailAfterReply, Raise, files
  <2>. QED
    BY <2>1, <2>2
<1>10. CASE Crash
  BY <1>1, <1>7, <1>10 DEF Crash
<1>. QED
  BY <1>3, <1>4, <1>5, <1>6, <1>8, <1>9, <1>10, StepKinds

-----------------------------------------------------------------------------
(* No text is dropped. *)
LEMMA KeepsAnswered ==
    ASSUME TypeOK, ProcessedTextWasAnswered, NEW h \in Messages,
           processed' \subseteq processed \union {Id(h)},
           h \in Text => replies[h] > 0 /\ h \in inbox,
           inbox \subseteq inbox',
           \A m \in Messages : replies[m] > 0 => replies'[m] > 0
    PROVE  ProcessedTextWasAnswered'
<1>. SUFFICES ASSUME NEW m \in Text \ Unnamed, Id(m)' \in processed'
              PROVE  replies'[m] > 0 /\ m \in inbox'
  BY DEF ProcessedTextWasAnswered
<1>1. m \in Messages \ Unnamed /\ Id(m)' = Id(m)
  BY ClawbotAssumption DEF Id
<1>2. CASE Id(m) \in processed
  BY <1>1, <1>2 DEF ProcessedTextWasAnswered
<1>3. CASE Id(h) = Id(m)
  <2>1. h = m
    BY <1>1, <1>3, NamedIdIsUnique
  <2>. QED
    BY <1>1, <2>1
<1>. QED
  BY <1>1, <1>2, <1>3

LEMMA KeepsUnprocessed ==
    ASSUME ProcessedTextWasAnswered, processed' = processed, inbox \subseteq inbox',
           \A m \in Messages : replies[m] > 0 => replies'[m] > 0
    PROVE  ProcessedTextWasAnswered'
<1>1. \A m \in Text \ Unnamed : m \in Messages /\ Id(m)' = Id(m)
  BY ClawbotAssumption DEF Id
<1>. QED
  BY <1>1 DEF ProcessedTextWasAnswered

LEMMA AnsweredStep ==
    ASSUME TypeOK, Places, ProcessedTextWasAnswered, [Next]_vars
    PROVE  ProcessedTextWasAnswered'
<1>1. CASE Quiet
  BY <1>1, KeepsUnprocessed DEF Quiet
<1>2. CASE SkipUnsupported
  <2>1. Head(todo) \in Messages
    BY <1>2, TodoType DEF SkipUnsupported
  <2>. QED
    BY <1>2, <2>1, KeepsAnswered DEF SkipUnsupported, observers
<1>3. ASSUME replies' = Replied, pc = "post", want = "reply"
      PROVE  \A m \in Messages : replies[m] > 0 => replies'[m] > 0
  BY <1>3, TodoType, RepliedType DEF Places
<1>4. CASE SendReply
  BY <1>3, <1>4, KeepsUnprocessed DEF SendReply, files
<1>5. CASE FailAfterReply
  BY <1>3, <1>5, KeepsUnprocessed DEF FailAfterReply, Raise, files
<1>6. ASSUME pc = "mark"
      PROVE  /\ Head(todo) \in Messages
             /\ replies[Head(todo)] > 0 /\ Head(todo) \in inbox
  BY <1>6, TodoType DEF Places
<1>7. CASE MarkProcessed
  <2>1. pc = "mark"
    BY <1>7 DEF MarkProcessed
  <2>. QED
    BY <1>6, <1>7, <2>1, KeepsAnswered DEF MarkProcessed, observers
<1>8. CASE BrokenOff
  <2>1. inbox' = inbox /\ replies' = replies
    BY <1>8 DEF BrokenOff
  <2>2. CASE processed' = processed
    BY <2>1, <2>2, KeepsUnprocessed
  <2>3. CASE pc = "mark" /\ processed' = processed \union {Id(Head(todo))}
    BY <1>6, <2>1, <2>3, KeepsAnswered
  <2>. QED
    BY <1>8, <2>2, <2>3 DEF BrokenOff
<1>. QED
  BY <1>1, <1>2, <1>4, <1>5, <1>7, <1>8, StepKinds DEF Fail, Crash

-----------------------------------------------------------------------------
(* No second reply without a cause. *)
LEMMA CauseStep ==
    ASSUME TypeOK, TypeOK', Places, AnswersAreRemembered, SecondReplyHasACause, [Next]_vars
    PROVE  SecondReplyHasACause'
<1>1. crashes \in Nat /\ crashes' \in Nat
  BY BoundsType DEF TypeOK
<1>2. ASSUME replies' = replies, unsure \subseteq unsure', crashes <= crashes'
      PROVE  SecondReplyHasACause'
  BY <1>1, <1>2 DEF SecondReplyHasACause
<1>3. CASE Quiet \/ SkipUnsupported \/ MarkProcessed
  BY <1>1, <1>2, <1>3 DEF Quiet, SkipUnsupported, MarkProcessed, bounds, observers
<1>4. CASE Fail \/ Crash
  BY <1>1, <1>2, <1>4 DEF Fail, Crash, BrokenOff
<1>5. ASSUME replies' = Replied, pc = "post", want = "reply", NEW m \in Messages,
             replies'[m] = 2, m # Head(todo)
      PROVE  replies[m] = 2
  BY <1>5, TodoType, RepliedType DEF Places
<1>6. CASE SendReply
  <2>1. pc = "post" /\ want = "reply" /\ replies' = Replied /\ unsure' = unsure
        /\ crashes' = crashes
    BY <1>6 DEF SendReply, bounds
  <2>2. ASSUME replies'[Head(todo)] = 2
        PROVE  Head(todo) \in unsure \/ Nameless(Head(todo))
    <3>1. Head(todo) \in Messages /\ Id(Head(todo)) \notin processed
      BY <2>1, TodoType DEF Places
    <3>2. replies[Head(todo)] > 0
      BY <2>1, <2>2, <3>1, RepliedType
    <3>. QED
      BY <2>1, <3>1, <3>2 DEF AnswersAreRemembered, Remembered
  <2>. QED
    BY <1>5, <2>1, <2>2 DEF SecondReplyHasACause, Nameless
<1>7. CASE FailAfterReply
  <2>1. pc = "post" /\ want = "reply" /\ replies' = Replied /\ crashes' = crashes
        /\ unsure' = unsure \union {Head(todo)}
    BY <1>7 DEF FailAfterReply, Raise
  <2>. QED
    BY <1>5, <2>1 DEF SecondReplyHasACause
<1>. QED
  BY <1>3, <1>4, <1>6, <1>7, StepKinds

-----------------------------------------------------------------------------
LEMMA Invariance == Spec => []IInv
<1>1. IInv /\ [Next]_vars => IInv'
  BY TypeStep, PlacesStep, RememberedStep, AnsweredStep, CauseStep DEF IInv
<1>. QED
  BY InitInv, <1>1, PTL DEF Spec

(* The state of the bridge has its types (all of ClawbotBridge). *)
THEOREM TypeCorrect == Spec => []TypeOK
<1>1. IInv => TypeOK
  BY DEF IInv
<1>. QED
  BY <1>1, Invariance, PTL

(* However the log grows, the callbacks repeat, the requests fail and the     *)
(* bridge restarts, a second reply to a message has one of the known causes   *)
(* (service.py:345-398).                                                      *)
THEOREM NoIdleRepeat == Spec => []SecondReplyHasACause
<1>1. IInv => SecondReplyHasACause
  BY DEF IInv
<1>. QED
  BY <1>1, Invariance, PTL

(* The file of a text is never there before its reply: nothing that breaks    *)
(* off, and no other message's id, takes a named text out of the pages that   *)
(* are still to be answered (service.py:378-398).                             *)
THEOREM NoTextDropped == Spec => []ProcessedTextWasAnswered
<1>1. IInv => ProcessedTextWasAnswered
  BY DEF IInv
<1>. QED
  BY <1>1, Invariance, PTL

-----------------------------------------------------------------------------
(* The envelope of the callbacks. *)

LEMMA DivMod ==
    ASSUME NEW n \in Nat
    PROVE  n \div 256 \in Nat /\ n % 256 \in 0..255 /\ (n \div 256) * 256 + (n % 256) = n
BY SMT

\* The length word holds the length of every body.
LEMMA WordHoldsLength ==
    ASSUME NEW n \in Nat
    PROVE  Value(Word(n)) = n
<1>. DEFINE q1 == n \div 256
            q2 == q1 \div 256
            q3 == q2 \div 256
<1>1. q1 \in Nat /\ q1 * 256 + (n % 256) = n
  BY DivMod
<1>2. q2 \in Nat /\ q2 * 256 + (q1 % 256) = q1
  BY <1>1, DivMod
<1>3. q3 \in Nat /\ q3 * 256 + (q2 % 256) = q2
  BY <1>2, DivMod
<1>4. Value(Word(n)) = ((q3 * 256 + (q2 % 256)) * 256 + (q1 % 256)) * 256 + (n % 256)
  BY DEF Value, Word
<1>. QED
  BY <1>1, <1>2, <1>3, <1>4

LEMMA Multiple ==
    ASSUME NEW b \in Nat, b > 0, NEW k \in Nat
    PROVE  (b * k) % b = 0
BY SMT

LEMMA Division ==
    ASSUME NEW n \in Nat, NEW b \in Nat, b > 0
    PROVE  n \div b \in Nat /\ n % b \in 0..b - 1 /\ n = b * (n \div b) + (n % b)
BY SMT

\* There is at least one byte of padding and at most a block of it, and it
\* ends a block: a body that fills its last block gets a whole block more.
LEMMA PaddingFillsTheBlock ==
    ASSUME NEW n \in Nat
    PROVE  /\ BlockSize - (n % BlockSize) \in 1..BlockSize
           /\ (n + (BlockSize - (n % BlockSize))) % BlockSize = 0
<1>1. BlockSize \in Nat /\ BlockSize > 0
  BY BlockAssumption
<1>. DEFINE q == n \div BlockSize
            r == n % BlockSize
<1>2. q \in Nat /\ r \in 0..BlockSize - 1 /\ n = BlockSize * q + r
  BY <1>1, Division
<1>. HIDE DEF q, r
<1>3. n + (BlockSize - r) = BlockSize * (q + 1)
  BY <1>1, <1>2
<1>4. (BlockSize * (q + 1)) % BlockSize = 0
  BY <1>1, <1>2, Multiple
<1>5. BlockSize - r \in 1..BlockSize
  BY <1>1, <1>2
<1>. QED
  BY <1>3, <1>4, <1>5 DEF r

LEMMA PaddingIsAByte ==
    ASSUME NEW n \in 1..BlockSize
    PROVE  n \in Byte /\ n \in Nat
BY BlockAssumption DEF Byte

LEMMA PadType ==
    ASSUME NEW s \in Seq(Byte)
    PROVE  /\ PadLength(s) \in 1..BlockSize
           /\ Pad(s) \in Seq(Byte)
           /\ Len(Pad(s)) = Len(s) + PadLength(s)
           /\ \A i \in 1..Len(s) : Pad(s)[i] = s[i]
           /\ \A i \in Len(s) + 1 .. Len(s) + PadLength(s) : Pad(s)[i] = PadLength(s)
<1>. DEFINE p == PadLength(s)
            padding == [i \in 1..p |-> p]
<1>1. p \in 1..BlockSize
  BY PaddingFillsTheBlock DEF PadLength
<1>2. p \in Byte /\ p \in Nat
  BY <1>1, PaddingIsAByte
<1>. HIDE DEF p
<1>3. padding \in Seq(Byte) /\ Len(padding) = p
  BY <1>2
<1>. QED
  BY <1>1, <1>2, <1>3 DEF Pad, p

\* A frame is cut into its parts at the sums of their lengths.
LEMMA FrameCuts ==
    ASSUME NEW a \in Seq(Byte), NEW b \in Seq(Byte), NEW c \in Seq(Byte), NEW d \in Seq(Byte),
           NEW f, f = a \o b \o c \o d
    PROVE  /\ f \in Seq(Byte) /\ Len(f) = Len(a) + Len(b) + Len(c) + Len(d)
           /\ SubSeq(f, Len(a) + 1, Len(a) + Len(b)) = b
           /\ SubSeq(f, Len(a) + Len(b) + 1, Len(a) + Len(b) + Len(c)) = c
           /\ SubSeq(f, Len(a) + Len(b) + Len(c) + 1, Len(f)) = d
BY SMT

\* A padded payload is a whole number of cipher blocks (_pkcs7_pad).
THEOREM PadFillsBlocks ==
    ASSUME NEW s \in Seq(Byte)
    PROVE  Len(Pad(s)) % BlockSize = 0
BY PadType, PaddingFillsTheBlock DEF PadLength

\* _pkcs7_unpad takes away what _pkcs7_pad added, and nothing else.
THEOREM UnpadOfPad ==
    ASSUME NEW s \in Seq(Byte)
    PROVE  Unpad(Pad(s)) = s
<1>. DEFINE p == PadLength(s)
            t == Pad(s)
<1>1. /\ p \in 1..BlockSize /\ t \in Seq(Byte) /\ Len(t) = Len(s) + p
      /\ \A i \in 1..Len(s) : t[i] = s[i]
      /\ \A i \in Len(s) + 1 .. Len(s) + p : t[i] = p
  BY PadType
<1>2. BlockSize \in Nat /\ p \in Nat /\ p >= 1 /\ p <= BlockSize /\ Len(s) \in Nat
  BY <1>1, BlockAssumption
<1>. HIDE DEF p, t
<1>3. t # <<>> /\ t[Len(t)] = p
  BY <1>1, <1>2
<1>4. SubSeq(t, 1, Len(t) - p) = s
  BY <1>1, <1>2
<1>5. ~ \E i \in Len(t) - p + 1 .. Len(t) : t[i] # p
  BY <1>1, <1>2
<1>6. p <= Len(t)
  BY <1>1, <1>2
<1>. QED
  BY <1>2, <1>3, <1>4, <1>5, <1>6 DEF Unpad, t

LEMMA WordType ==
    ASSUME NEW n \in Nat, n < Lengths
    PROVE  Word(n) \in Seq(Byte) /\ Len(Word(n)) = WordBytes
<1>. DEFINE q1 == n \div 256
            q2 == q1 \div 256
            q3 == q2 \div 256
<1>1. q1 \in Nat /\ q1 * 256 + (n % 256) = n /\ n % 256 \in 0..255
  BY DivMod
<1>2. q2 \in Nat /\ q2 * 256 + (q1 % 256) = q1 /\ q1 % 256 \in 0..255
  BY <1>1, DivMod
<1>3. q3 \in Nat /\ q3 * 256 + (q2 % 256) = q2 /\ q2 % 256 \in 0..255
  BY <1>2, DivMod
<1>. DEFINE b0 == n % 256
            b1 == q1 % 256
            b2 == q2 % 256
<1>4. Word(n) = <<q3, b2, b1, b0>>
  BY DEF Word
<1>. HIDE DEF q1, q2, q3
<1>5. q3 \in 0..255
  BY <1>1, <1>2, <1>3 DEF Lengths
<1>. HIDE DEF b0, b1, b2
<1>6. <<q3, b2, b1, b0>> \in Seq(Byte) /\ Len(<<q3, b2, b1, b0>>) = 4
  BY <1>1, <1>2, <1>3, <1>5 DEF Byte, b0, b1, b2
<1>. QED
  BY <1>4, <1>6 DEF WordBytes

\* A sealed reply is opened again to the body it was sealed from, by a
\* receiver of the same token, key and id (encrypt_message and
\* decrypt_message).
THEOREM OpenOfSeal ==
    ASSUME NEW secret, NEW key,
           NEW random \in Seq(Byte), NEW body \in Seq(Byte), NEW id \in Seq(Byte)
    PROVE  Len(random) = RandomBytes /\ Len(body) < Lengths
           => Open(secret, key, id, Seal(secret, key, random, body, id)) = body
<1>. DEFINE n == Len(body)
            w == Word(n)
            plain == Frame(random, body, id)
<1>1. SUFFICES ASSUME Len(random) = RandomBytes, n < Lengths
               PROVE  Open(secret, key, id, Seal(secret, key, random, body, id)) = body
  BY Zenon
<1>2. w \in Seq(Byte)
  BY <1>1, WordType
<1>3. /\ plain \in Seq(Byte) /\ Len(plain) = Len(random) + Len(w) + Len(body) + Len(id)
      /\ SubSeq(plain, Len(random) + 1, Len(random) + Len(w)) = w
      /\ SubSeq(plain, Len(random) + Len(w) + 1, Len(random) + Len(w) + Len(body)) = body
      /\ SubSeq(plain, Len(random) + Len(w) + Len(body) + 1, Len(plain)) = id
  <2>1. plain = random \o w \o body \o id
    BY DEF Frame
  <2>. HIDE DEF w, plain
  <2>. QED
    BY <1>2, <2>1, FrameCuts
<1>4. n \in Nat /\ Len(w) = WordBytes /\ Value(w) = n /\ Len(id) \in Nat
  BY <1>1, WordType, WordHoldsLength
<1>. HIDE DEF w, plain, n
<1>5. Len(random) + Len(w) = Header
  BY <1>1, <1>4 DEF Header
<1>6. /\ Len(plain) = Header + n + Len(id)
      /\ SubSeq(plain, RandomBytes + 1, Header) = w
      /\ SubSeq(plain, Header + 1, Header + n) = body
      /\ SubSeq(plain, Header + n + 1, Len(plain)) = id
  BY <1>1, <1>3, <1>5, Zenon DEF n
<1>7. BodyLength(plain) = n
  BY <1>4, <1>6 DEF BodyLength
<1>8. Header + n <= Len(plain) /\ ~(Len(plain) < Header)
  BY <1>4, <1>6 DEF Header, RandomBytes, WordBytes
<1>9. Payload(plain) = body
  BY <1>6, <1>7, <1>8 DEF Payload, Slice
<1>10. Receiver(plain) = id
  BY <1>6, <1>7 DEF Receiver
<1>11. Unpad(Pad(plain)) = plain
  BY <1>3, UnpadOfPad
<1>12. plain # Bad
  BY <1>3, BadAssumption
<1>13. Unframe(plain, id) = body
  BY <1>8, <1>9, <1>10, <1>12 DEF Unframe
<1>. QED
  BY <1>11, <1>13 DEF Open, Seal, plain
=============================================================================
