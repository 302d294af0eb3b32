--------------------------- MODULE ClawbotBridge ---------------------------
(***************************************************************************)
(* The bridge to the customer-service account of WeCom                     *)
(* (integrations/wechat_clawbot).                                          *)
(*                                                                         *)
(* The platform keeps a log of the messages of an account and posts a      *)
(* callback that says only that there is something to read.  The handler   *)
(* reads the log from its start, page by page, answers every text that has *)
(* no file in processed_messages, and writes that file after the reply.    *)
(* `async def callback` calls the synchronous service on the event loop,   *)
(* so callbacks are handled one at a time, in the order they arrive.       *)
(* Messages may also come inside a callback (the direct ones).             *)
(*                                                                         *)
(* The platform repeats a callback that was answered late or with an       *)
(* error: Post may add a callback again at any time.  What the reply says  *)
(* is the subject of MarketAnswers; the envelope of a callback is the      *)
(* subject of CallbackEnvelope.  The archive of the callbacks is written   *)
(* and never read, and left out.                                           *)
(***************************************************************************)
EXTENDS Naturals, Sequences

CONSTANTS
    Messages,
    Direct,        \* the messages that come inside a callback
    Text,          \* the customers' texts; the others are events, pictures, our own messages
    Unnamed,       \* the messages without a msgid
    Refused,       \* no reply reaches their sender: the quota of replies is used up, the
                   \* session is over, or a direct message names no account
    Sync,          \* the callback that announces messages in the log
    None,
    PageSize,      \* the limit of sync_msg
    MaxPages,      \* pages read for a callback
    MaxFaults,     \* bound: failed calls and refused callbacks
    MaxCrashes,    \* bound: restarts of the bridge
    MaxTokens,     \* bound: access tokens the platform issues
    Seconds        \* the times at which a callback may come

ASSUME ClawbotAssumption ==
    /\ Direct \subseteq Messages /\ Text \subseteq Messages
    /\ Unnamed \subseteq Messages /\ Refused \subseteq Messages
    /\ Sync \notin Messages /\ None \notin Messages \union {Sync}
    /\ {PageSize, MaxPages} \subseteq Nat \ {0}
    /\ {MaxFaults, MaxCrashes, MaxTokens} \subseteq Nat
    /\ Seconds # {} /\ Seconds \subseteq Nat

Callbacks == {Sync} \union Direct

VARIABLES
    log,           \* the messages of the account, oldest first
    calls,         \* callbacks posted and not yet handled
    valid,         \* the access token the platform accepts
    cache,         \* access_token_cache.json; 0: none, torn or past its expires_at
    processed,     \* processed_messages: the ids that have a file
    inbox,         \* the messages saved to the inbox
    pc, call,      \* the step of the handler, the callback it handles
    want,          \* the request it makes: a page of the log or a reply
    force, token,  \* force_refresh, and the token of the request
    page, todo, cursor, more, stamp,
    faults, crashes,   \* each crash ends a process, and its hash seed
    replies,       \* observer: replies the sender of a message received; 2 stands for more
    unsure         \* observer: messages replied to whose file could not be written

platform == <<log, calls, valid>>
files == <<cache, processed, inbox>>
request == <<want, force, token>>
sync == <<page, todo, cursor, more, stamp>>
bounds == <<faults, crashes>>
observers == <<replies, unsure>>
vars == <<platform, files, bounds, pc, call, request, sync, observers>>

\* The cache holds a token that has been replaced since; Expire makes it empty.
Init ==
    /\ log = <<>> /\ calls = {} /\ valid = 2
    /\ cache = 1 /\ processed = {} /\ inbox = {}
    /\ faults = 0 /\ crashes = 0
    /\ pc = "idle" /\ call = None
    /\ want = "page" /\ force = FALSE /\ token = 0
    /\ page = 0 /\ todo = <<>> /\ cursor = 0 /\ more = FALSE /\ stamp = 0
    /\ replies = [m \in Messages |-> 0] /\ unsure = {}

\* Variant: every id is a hash.
HashedId(m) == <<m, crashes>>

\* The id of a message: its msgid; without one a hash that the next process
\* computes differently, or the second at which a direct message came.
Id(m) ==
    IF m \notin Unnamed THEN <<m, 0>>
    ELSE IF m \in Direct THEN <<Sync, stamp>> ELSE <<m, crashes>>

\* A page of sync_msg
Page(from) ==
    SubSeq(log, from + 1, IF from + PageSize <= Len(log) THEN from + PageSize ELSE Len(log))

-----------------------------------------------------------------------------
(* The platform *)

Arrive(m) ==
    /\ m \notin Direct /\ \A i \in 1..Len(log) : log[i] # m
    /\ log' = Append(log, m)
    /\ UNCHANGED <<calls, valid, files, bounds, pc, call, request, sync, observers>>

Post(c) ==
    /\ calls' = calls \union {c}
    /\ UNCHANGED <<log, valid, files, bounds, pc, call, request, sync, observers>>

\* Another holder of the secret has a new token issued.
Reissue ==
    /\ valid < MaxTokens /\ valid' = valid + 1
    /\ UNCHANGED <<log, calls, files, bounds, pc, call, request, sync, observers>>

\* The cached token passes its expires_at.
Expire ==
    /\ cache # 0 /\ cache' = 0
    /\ UNCHANGED <<platform, processed, inbox, bounds, pc, call, request, sync, observers>>

-----------------------------------------------------------------------------
(* The handler of a callback *)

Take(c) ==
    /\ pc = "idle" /\ c \in calls
    /\ calls' = calls \ {c} /\ call' = c
    /\ IF c = Sync
       THEN pc' = "token" /\ page' = 1 /\ UNCHANGED <<todo, stamp>>
       ELSE pc' = "scan" /\ todo' = <<c>> /\ stamp' \in Seconds /\ UNCHANGED page
    /\ UNCHANGED <<log, valid, files, bounds, request, cursor, more, observers>>

\* A callback that cannot be decrypted leaves no trace.
Reject(c) ==
    /\ pc = "idle" /\ c \in calls /\ faults < MaxFaults
    /\ calls' = calls \ {c} /\ faults' = faults + 1
    /\ UNCHANGED <<log, valid, files, crashes, pc, call, request, sync, observers>>

\* get_access_token
UseCachedToken ==
    /\ pc = "token" /\ ~force /\ cache # 0
    /\ token' = cache /\ pc' = "post"
    /\ UNCHANGED <<platform, files, bounds, call, want, force, sync, observers>>

FetchToken ==
    /\ pc = "token" /\ (force \/ cache = 0)
    /\ token' = valid /\ cache' = valid /\ pc' = "post"
    /\ UNCHANGED <<platform, processed, inbox, bounds, call, want, force, sync, observers>>

\* _post_json: errcode 40014, once
PostAgain ==
    /\ pc = "post" /\ token # valid /\ ~force
    /\ force' = TRUE /\ pc' = "token"
    /\ UNCHANGED <<platform, files, bounds, call, want, token, sync, observers>>

\* The handler is left: its local variables are gone.
Return ==
    /\ pc' = "idle" /\ call' = None
    /\ want' = "page" /\ force' = FALSE /\ token' = 0
    /\ page' = 0 /\ todo' = <<>> /\ cursor' = 0 /\ more' = FALSE /\ stamp' = 0

\* The exception that ends the handler: nothing more of the log is read.
Raise == Return /\ UNCHANGED <<platform, files, crashes>>

RefusedAgain ==
    /\ pc = "post" /\ token # valid /\ force
    /\ Raise /\ UNCHANGED <<faults, observers>>

\* Variant: next_cursor is not passed on.
ReadPageAgain ==
    /\ pc = "post" /\ want = "page" /\ token = valid
    /\ todo' = Page(0)
    /\ cursor' = Len(todo')
    /\ more' = (cursor' < Len(log))
    /\ pc' = "scan"
    /\ UNCHANGED <<platform, files, bounds, call, request, page, stamp, observers>>

\* sync_messages
ReadPage ==
    /\ pc = "post" /\ want = "page" /\ token = valid
    /\ todo' = Page(cursor)
    /\ cursor' = cursor + Len(todo')
    /\ more' = (cursor' < Len(log))
    /\ pc' = "scan"
    /\ UNCHANGED <<platform, files, bounds, call, request, page, stamp, observers>>

\* _process_message_payload
SkipProcessed ==
    /\ pc = "scan" /\ todo # <<>> /\ Id(Head(todo)) \in processed
    /\ todo' = Tail(todo)
    /\ UNCHANGED <<platform, files, bounds, pc, call, request, page, cursor, more, stamp, observers>>

SkipUnsupported ==
    /\ pc = "scan" /\ todo # <<>> /\ Id(Head(todo)) \notin processed
    /\ Head(todo) \notin Text
    /\ processed' = processed \union {Id(Head(todo))}
    /\ todo' = Tail(todo)
    /\ UNCHANGED <<platform, cache, inbox, bounds, pc, call, request, page, cursor, more,
                   stamp, observers>>

\* Variant: the file is written before the reply is sent.
AnswerMarkedFirst ==
    /\ pc = "scan" /\ todo # <<>> /\ Id(Head(todo)) \notin processed
    /\ Head(todo) \in Text
    /\ inbox' = inbox \union {Head(todo)}
    /\ processed' = processed \union {Id(Head(todo))}
    /\ want' = "reply" /\ force' = FALSE /\ pc' = "token"
    /\ UNCHANGED <<platform, cache, bounds, call, token, sync, observers>>

Answer ==
    /\ pc = "scan" /\ todo # <<>> /\ Id(Head(todo)) \notin processed
    /\ Head(todo) \in Text
    /\ inbox' = inbox \union {Head(todo)}
    /\ want' = "reply" /\ force' = FALSE /\ pc' = "token"
    /\ UNCHANGED <<platform, cache, processed, bounds, call, token, sync, observers>>

\* send_text_message
Replied == [replies EXCEPT ![Head(todo)] = IF @ < 2 THEN @ + 1 ELSE @]

SendReply ==
    /\ pc = "post" /\ want = "reply" /\ token = valid /\ Head(todo) \notin Refused
    /\ replies' = Replied
    /\ pc' = "mark"
    /\ UNCHANGED <<platform, files, bounds, call, request, sync, unsure>>

ReplyRefused ==
    /\ pc = "post" /\ want = "reply" /\ token = valid /\ Head(todo) \in Refused
    /\ Raise /\ UNCHANGED <<faults, observers>>

MarkProcessed ==
    /\ pc = "mark"
    /\ processed' = processed \union {Id(Head(todo))}
    /\ todo' = Tail(todo) /\ pc' = "scan"
    /\ UNCHANGED <<platform, cache, inbox, bounds, call, request, page, cursor, more,
                   stamp, observers>>

\* Variant: pages are read as long as there are more.
NextPageUnbounded ==
    /\ pc = "scan" /\ todo = <<>> /\ more
    /\ page' = page + 1
    /\ want' = "page" /\ force' = FALSE /\ pc' = "token"
    /\ UNCHANGED <<platform, files, bounds, call, token, todo, cursor, more, stamp, observers>>

NextPage ==
    /\ pc = "scan" /\ todo = <<>> /\ more /\ page < MaxPages
    /\ page' = page + 1
    /\ want' = "page" /\ force' = FALSE /\ pc' = "token"
    /\ UNCHANGED <<platform, files, bounds, call, token, todo, cursor, more, stamp, observers>>

Finish ==
    /\ pc = "scan" /\ todo = <<>> /\ ~(more /\ page < MaxPages)
    /\ Return /\ UNCHANGED <<platform, files, bounds, observers>>

-----------------------------------------------------------------------------
(* Faults *)

\* A file is truncated before it is written: a token being saved may be
\* lost, the file of a message being marked exists or does not.
BrokenOff ==
    /\ cache' \in IF pc = "token" THEN {cache, 0} ELSE {cache}
    /\ \/ pc = "mark" /\ processed' = processed \union {Id(Head(todo))} /\ UNCHANGED unsure
       \/ pc = "mark" /\ unsure' = unsure \union {Head(todo)} /\ UNCHANGED processed
       \/ pc # "mark" /\ UNCHANGED <<processed, unsure>>
    /\ Return /\ UNCHANGED <<log, valid, inbox, replies>>

\* A request, the query or a write fails.
Fail ==
    /\ pc # "idle" /\ faults < MaxFaults /\ faults' = faults + 1
    /\ BrokenOff /\ UNCHANGED <<calls, crashes>>

\* The reply is delivered, its answer is lost.
FailAfterReply ==
    /\ pc = "post" /\ want = "reply" /\ token = valid /\ Head(todo) \notin Refused
    /\ faults < MaxFaults /\ faults' = faults + 1
    /\ Raise
    /\ replies' = Replied /\ unsure' = unsure \union {Head(todo)}

\* The process dies and is started again.
Crash ==
    /\ crashes < MaxCrashes /\ crashes' = crashes + 1
    /\ calls' = {}
    /\ BrokenOff /\ UNCHANGED faults

Step ==
    \/ UseCachedToken \/ FetchToken \/ PostAgain \/ RefusedAgain \/ ReadPage
    \/ SkipProcessed \/ SkipUnsupported \/ Answer \/ SendReply \/ ReplyRefused
    \/ MarkProcessed \/ NextPage \/ Finish

Next ==
    \/ \E m \in Messages : Arrive(m)
    \/ \E c \in Callbacks : Post(c) \/ Take(c) \/ Reject(c)
    \/ Reissue \/ Expire
    \/ Step
    \/ Fail \/ FailAfterReply \/ Crash

\* Callbacks for the account keep coming, as long as its customers write;
\* the server handles them in the order they come (a callback that waits is
\* not overtaken for ever), and a request returns or times out.
Fairness == WF_vars(Post(Sync)) /\ SF_vars(Take(Sync)) /\ WF_vars(Step)

Spec == Init /\ [][Next]_vars /\ Fairness

-----------------------------------------------------------------------------
(* Properties *)

Ids == (Messages \union {Sync}) \X Nat

TypeOK ==
    /\ log \in Seq(Messages) /\ calls \subseteq Callbacks
    /\ valid \in Nat /\ cache \in Nat
    /\ processed \subseteq Ids /\ inbox \subseteq Messages
    /\ faults \in 0..MaxFaults /\ crashes \in 0..MaxCrashes
    /\ pc \in {"idle", "token", "post", "scan", "mark"}
    /\ call \in Callbacks \union {None}
    /\ want \in {"page", "reply"} /\ force \in BOOLEAN /\ token \in Nat
    /\ page \in 0..MaxPages /\ todo \in Seq(Messages) /\ cursor \in Nat
    /\ more \in BOOLEAN /\ stamp \in Nat
    /\ replies \in [Messages -> 0..2] /\ unsure \subseteq Messages

\* A customer gets a second reply to one message only if the bridge broke off
\* between the first reply and its file, or the message has no id of its own
\* and the bridge was restarted or the callback repeated (service.py:345-398).
SecondReplyHasACause ==
    \A m \in Messages : replies[m] = 2 =>
        \/ m \in unsure
        \/ m \in Unnamed /\ (m \in Direct \/ crashes > 0)

\* The file that keeps a text from being answered again is there only if the
\* text was answered and its copy is in the inbox, whatever broke off in
\* between: no text is dropped for good (service.py:378-398).
ProcessedTextWasAnswered ==
    \A m \in Text \ Unnamed : Id(m) \in processed => replies[m] > 0 /\ m \in inbox

\* A text in the pages the bridge reads is answered in the end, if no text
\* before it is one that no reply can be sent to: that one raises in every
\* callback, and nothing behind it is reached (service.py:295-302).
Reached(i) ==
    /\ i <= Len(log) /\ i <= PageSize * MaxPages
    /\ \A j \in 1..i : log[j] \notin Text \intersect Refused

UnblockedTextIsAnswered ==
    \A m \in Text \ Direct :
        (\E i \in 1..Len(log) : log[i] = m /\ Reached(i)) ~> replies[m] > 0

=============================================================================
