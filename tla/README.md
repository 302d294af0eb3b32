# DGTEAM in TLA+

DGTEAM crawls wholesale quotes, computes market prices from them, packs the
result as a *release*, publishes the release to a cloud store and answers
queries from it, over HTTP and through WeChat. This directory holds TLA+ models
of its parts, the TLC runs that check them and the TLAPS proofs about them. All
paths below are relative to the repository root; the Python package is
`src/dgteam`.

## The system

| Part | Code | State | Operations | Hard behaviours |
|---|---|---|---|---|
| Cloud release store, publish API | `publish_api/release_store.py`, `publish_api/app.py`, `release/retention.py` | the directories `current`, `previous`, `history/<id>`, `staging/<id>`, `uploads`, the staging names of the switch, the deployment journals | upload, deploy, import-local, activate, rollback; retention after each | several renames and tree copies in place of one atomic step; I/O errors with an undo inside an undo; crash in the middle; unlocked handler threads |
| WeChat official account | `integrations/wechat_official/*` | `callback_dedupe/`, `sessions/`, `recognition/{queued,processing,completed,failed}/` | text and image callbacks; a worker's claim, recognize, reply, complete | two kinds of processes on the same files, torn writes, redelivered callbacks, racing and dying workers |
| WeChat clawbot bridge | `integrations/wechat_clawbot/*` | `processed_messages/`, `access_token_cache.json`, inbox | a callback: pages of the log, an answer to each new text | repeated callbacks, a message that raises, tokens replaced by others, restarts between reply and mark |
| Production automation, cloud sync | `automation/prod_collect_and_sync.py`, `agent/pipeline.py`, `agent/stages/*`, `release/sync_cli.py`, `release/upload_client.py` | lock file, `pending_sync.json`, local releases | a scheduled run: retry pending, collect, build, prune, upload, activate | lost answers, late effects, retries of what is done, pruning of what is still needed, stale locks |
| Crawler agent | `agent/crawler.py`, `core/run_import.py` | task table, quote rows, `progress.jsonl`, `all_rows.csv`, session generation, two pools | plan, bootstrap import, fetch, parse, persist, relogin, replay gaps, publish, resume | threads, sessions that expire under many requests, interrupted runs and imports |
| Release builder, live market | `release/builder.py`, `release/live_market.py`, `release/deploy_state.py` | the local database, release directories | read rows, copy, publish, pack | several transactions against a database that is written |
| Storage core | `core/storage*.py`, `core/run_import.py` | SQLite tables of runs, tasks, quotes, snapshots, references | import a run, publish snapshots, query | several transactions per operation |
| Query API | `query_api/*` | index cache, search cache | search, open a hit, narrow it | the directory under it is replaced; cache refresh by several threads; ranking |
| Market engines | `market/*` | none | cleaning, pricing, quality | numeric edges, which quote counts |
| Operations, scripts, configuration, web | `ops/*`, `scripts/*`, `core/config.py`, ... | none of their own | | |

How they meet: the scheduler starts the automation; its pipeline runs the
crawler, imports the run into the storage, computes the market, and builds a
local release; the sync uploads the release to the publish API over HTTP and
activates it; the query API and the WeChat processes read the store's `current`
directory. The WeChat callback service and its workers meet in files only.

What makes each part correct:

- *Release store*: a reader finds a whole release; a failed deployment changes
  nothing that is served; there is a release to go back to; nothing a crash
  leaves behind blocks the next deployment.
- *WeChat*: each picture or text is answered once, in the end; redelivery does
  no harm; one process's death does not stop the other.
- *Automation*: one run at a time; a release that could not be synced is kept
  and synced later; the cloud never goes back.
- *Crawler*: each planned task is tried, what is collected is stored and not
  collected again, and a resumed run finishes what an interrupted one left.
- *Builder, storage, query*: a release is of one moment, but for what was
  written since its build began; what is answered is of
  the release that is served.
- *Market, search*: the price is of the latest valid quotes and of the majority
  of them; what is asked for comes first; an opened or narrowed article shows
  all its prices and no other.

## Modules

Every definition that stands for code is listed with its lines in
`PROJECT.json` under `map`. A definition marked "Variant" is a mutated form of
the definition after it; no specification uses it. It serves to show that the
property named with it in `PROJECT.json` is able to fail.

| Level | Modules |
|---|---|
| Abstract specification | `TaskLedger` |
| Components | `ReleaseStore`, `WechatOfficial`, `ClawbotBridge`, `ProdAutomation`, `CrawlRun`, `LiveQuery`, `MarketAnswers` |
| Algorithms | `MarketPrice`, `ModelSearch`, `SnapshotRefine` (used by `MarketAnswers`), `CallbackEnvelope`, `TotalOrder` |
| Instances | `MC...` |
| Proofs | `...Proofs` |

### ReleaseStore

`current`, `previous`, `incoming` (`current.staging`), `retired`
(`current.previous_staging`), `history`, `evidence` (`rolled_back_*`) and `work`
(`staging/<deployment>`) are the directories. The content of a directory is what
`validate_release_dir` can tell apart: absent, empty, one whole release, torn.

A worker is a handler thread. One step of `pc[w]` is one file operation on a
shared directory, in the order of the code: `deploy_release` is `Preflight`,
`Stage`, `Backup`, then `_replace_directory` (`Incoming`, `Retire`, `Publish`,
`DropRetired`, or `UndoDrop` and `UndoRestore` on an exception), then
`CheckLive`, `Fail`, `DropStage`. `rollback` shares the steps of
`_replace_directory` and is entered both by its endpoint and, as
`_restore_live_after_failure`, from a failed deployment. `Prune` is the
retention pass; it keeps any admissible subset, because opening the database in
a directory changes the mtime it sorts by.

The `Fault...` actions are an error which outlasts `_retry_file_op`; the target
of the operation is left as the error found it. `Crash` kills the process: all
workers stop, each directory being written may be torn, and `ensure_dirs` runs
at the restart.

### WechatOfficial

`cpc` and `cjob` are the one callback in progress (the coroutine awaits nothing,
so callbacks do not overlap), `wpc` and `wjob` the workers. A shared file is
`absent`, `whole` or `Torn`: `write_json_utf8` truncates and then writes, so
each write is two steps (`...Open`, `...Fill`) and a death between them leaves
the file torn. A session is reduced to `task` (`pending_task_id`) and `cands`
(whether `pending_candidates` is empty), all that `classify_session` looks at
before `last_candidate`.

What the recognizer reads in a picture and what the query engine finds is chosen
freely; `FastLane` and `Resolution` are what the code makes of it. Any exception
of the service is `Raise` (abort, HTTP 500); `ServiceFault` raises at any step,
and at the trace before the `try` leaves the dedupe entry behind. An exception
of a worker ends its process, which is `WorkerCrash`. A worker which meets a
torn queue file dies and meets it again: no step.

### ClawbotBridge

`log` is the account's message log on the platform, `calls` the callbacks that
were posted and not yet handled, `valid` the token the platform accepts. `pc`
and `call` are the one callback in progress: `async def callback` runs the
synchronous service on the event loop. A callback for the account reads the log
page by page from its start (`ReadPage`, `NextPage`); a direct one carries its
message. A request is `UseCachedToken` or `FetchToken`, then its effect or
`PostAgain` (errcode 40014, once). Each message is skipped or answered:
`Answer` saves it and begins the reply, `SendReply` delivers it, `MarkProcessed`
writes the file that keeps it from being answered again. An id is what the
processed file is named for; a message without `msgid` gets a hash (which the
next process computes differently: `crashes` stands for its seed) or, if direct,
the second of its arrival.

`Fail` is an error of a request, of the query or of a write at any step,
`FailAfterReply` a reply that was delivered and whose answer is lost, `Crash` the
death of the process; a file being written may be there, torn, or missing.
`Refused` are the messages to whom no reply can be sent: a direct message without
an account, or a customer whom the platform no longer lets us write to.
`replies` and `unsure` are observers.

### CallbackEnvelope

`_pkcs7_pad`, `_pkcs7_unpad`, the frame of random bytes, length word, body and
receiver, and the checks of `decrypt_message`, byte by byte. The cipher and the
hash are the library's: a ciphertext is its key and its bytes, a signature its
token.

### ProdAutomation

A release is the number of the pipeline run that built it. `Start`,
`ReadPending`, `Sync` (as a retry), `Unlink`, `Pipeline`, `Prune`, `Sync`,
`SavePending`, `Stop` follow `main()`. The publish API takes one step per
request; `ReleaseStore` has its insides. A request may fail (`SyncFails`), or its
caller may give up or die while the server works on: the request is then in
`late` and takes effect at some later time (`ServeLate`).

Assumed here: a crawl outlasts the requests the server still works on (the guard
`late = {}` of `Pipeline`; a crawl takes hours, a deployment minutes), every sync
activates, `DGTEAM_KEEP_LOCAL_RELEASES` is 1 and `DGTEAM_KEEP_CLOUD_RELEASES` 0
as `main()` sets them. `RemoveStaleLock` is the operator: no code removes the
lock of a dead run.

### CrawlRun and TaskLedger

`CrawlRun` is `main()` of the crawler for one run key. On the disk are the task
table, the stored rows, `all_rows.csv`, `progress.jsonl` and the published live
market; they outlast `Crash`, which ends an attempt at any step. The main thread
owns everything else but the two pools, whose futures are done at any time with
any result: rows, no rows, a parse error, a transport error, "session expired",
"membership expired" or another API code. The steps are those of the code:
bootstrap import (`Bootstrap`, `ImportTask`, `ImportRows`), `Requeue`,
`EnsureTasks`, `Load`, the loop (`BeginSubmit`, `Submit`, `HitLimit`,
`FinalizeRequest`, `FinalizeProcess`), the three writes that make a result
durable (`SaveRows`, `SaveProgress`, `SaveTask`; an error in one of them is
`SaveRaises`), the replay of gaps (`BeginPass` to `EndReplay`), the publication
(`Complete`) and the exits after a stop. An attempt starts with any of `Options`:
another plan, another number of workers, `--max-tasks`, `--disable-sqlite`.

`TaskLedger` is what the run promises, in a few variables: stored rows stay
stored, a task is credited only with rows (or doubt about it is recorded by
withdrawing the credit), and what is published live is what is stored at that
moment. `CrawlRun`
implements it (`ImplementsLedger`, with `rows` and `credit` mapped to the
database). Two things the mapping shows: while an import is under way nothing is
credited, and a task whose record was imported without its rows (`torn`) is
never credited.

### LiveQuery

The local database is written by collectors and reference imports while a build
uses it in several transactions: the reference prices (`BeginBuild`), the import
that the summary names (`ReadContext`), the rows (`ReadRows`), and then
`PublishLocal`, or `CopyDatabase` and `FinishRelease`. The cloud's directory is
replaced by the steps of `_replace_directory`; a query thread opens the database
in it by path, anew for each read. `QueryIndexCache.get_state` is `ReadLive`,
`ReadPublished`, `ReadCounts` and `ReadReference` (the marker, read before the
lock), `Lock`, and the load: `CountSnapshots`, `ListSnapshots` or `ListRows`, then
`FindImport` and `ListExternal`. `Context` takes the three reads of reference
prices for a page as one step, because no property compares them;
`search_payload` is `LookUp` and `Rank` over an LRU cache; `Detail`, `Context`
and `Family` open a hit. `sqlite3.connect` creates what it does not find:
`MakeDirectory` and `OpenStub` are a request in the gap of a switch, which
leaves a directory with an empty database where the switch wants to rename to.

### MarketPrice, ModelSearch, SnapshotRefine, MarketAnswers

`MarketPrice` is the price of one article from its quotes: dedupe by merchant,
status, latest day, outliers per status, clusters and their scores, with every
threshold of `rules/default_rules.json`. `ModelSearch` reads a query, scores
families against it and orders them. `SnapshotRefine` narrows an opened article.
A text is a sequence of words of the keyword tables, a fraction is compared by
its numerators, and sorting is by the keys of the code (`TotalOrder`).
`MarketAnswers` composes them: runs are published, searched, opened and
narrowed, and a second run may become the live one in between.

The three algorithms were compared with the Python code on generated inputs
when they were written: the same price for each of 1,500 bags of quotes, the
same hits for 384 searches, and the same article for 159 of 165 refinements;
the other six differed in which of two equal variants represents a capacity.

## Runs

| Run | Checks | Bounds |
|---|---|---|
| `release_store` | `TypeOK`, `LiveOrPreviousIntact`, `CompletedDeployKeepsBoth`, `FailedDeployKeepsLive`, `NoResidueWedgesTheStore`, `RollbackIsAllOrNothing` | one worker, 2 releases, two troubles (two errors, or an error and a process death), retention of 0 or 1 release |
| `wechat_official` | `TypeOK`, `AnsweredAtMostOnce`, `NoTaskVanishesUnanswered`, `DuplicateOnlyAfterFailure` | 1 image, 1 text, 2 workers, 2 tasks, 2 deliveries of each message, 1 error, 1 death of each kind |
| `wechat_answers` | `EveryTaskAnswered` (liveness) | 2 images, 2 workers, 2 tasks, 1 error, 1 worker death |
| `clawbot_bridge` | `TypeOK`, `SecondReplyHasACause`, `ProcessedTextWasAnswered`, `UnblockedTextIsAnswered` (liveness); `EnvelopesOpen` as an assumption | log of an event, a text and a text that cannot be replied to, one direct text without an id; pages of 1, 2 pages a callback, 1 fault, 1 death, 3 tokens of which the first in the cache has been replaced, 2 seconds |
| `prod_automation` | `TypeOK`, `OneRunAtATime`, `PendingIsOnDisk`, `FailedSyncIsRemembered`, `LiveNeverGoesBack`, `PendingIsSynced` (liveness) | 2 processes, 4 releases, 3 faults, 2 deaths |
| `crawl_run` | `TypeOK`, `BacklogBounded`, `ReloginOnlyWhenExpired`, `CompletedTriedEverything`, `OpenGapsWereReplayed`, `CollectedIsNotRequestedAgain`, `ImplementsLedger` (refinement) | 2 tasks, 2 attempts of 4 command lines, 1 process worker, 1 retry of a request, of a login and of the gaps, 1 fault, deaths anywhere |
| `live_query` | `TypeOK`, `IndexIsOfTheRelease`, `SearchIsOfTheRelease`, `ReleaseIsOfOneMoment`, `SwitchEndsServed` | 2 runs, 2 releases, 2 switches, 2 threads, 2 requests of one query, search cache of 1, time up to 5 (two writes or builds) |
| `market_answers` | `TypeOK`, `LatestValidDayIsPriced`, `MajorityMakesTheMarket`, `SearchedTitleComesFirst`, `HitShowsItsRun`, `RefinementAnswersTheQuestion`, `CapacityPriceIsShown` | 16,107 scenarios over 12 articles: bags of quotes, shelves with searches and refinements; prices of 0 and quotes without a number among them; lists of 4 |
| `release_rollback_falls_back` | `RollbackFallsBack`, violated | 1 error |
| `release_failed_deploy` | `FailedDeployKeepsLive`, violated | 1 error, at the first rename |
| `wechat_callback_health` | `CallbackUnaffectedByWorker`, violated | 1 worker, 1 worker death, no error |
| `search_capacity_noise` | `CapacityNoiseKeepsTheFamily`, violated | two families and one query |

What the passing runs show, and why their bounds are enough:

- *Release store.* Requests run one after another without limit, so a behaviour
  holds any sequence of deployments, imports and rollbacks. Two releases are
  enough for old and new to differ; three different contents meet only with the
  torn one, which is there. One error plus one crash reaches the crash inside an
  undo, two errors the error inside an undo. `established` and `prior` are
  observers: no action reads them. `FaultPoints` omits `retire` and
  `drop_retired`: an error there removes the live release (first rename, see the
  findings) or the new release (last cleaning, same clause).
  `FailedDeployKeepsLive` and `RollbackIsAllOrNothing` speak of requests that met
  at most one error of their own: with two, the undo itself may fail, and then a
  client must look at the journal. With two workers requests overlap and each of
  these properties but `TypeOK` fails; nothing in the documents promises them
  then, and the publish API is called by one automation run at a time
  (`OneRunAtATime`).
- *WeChat official account.* Two workers and two tasks make every race for a
  claim possible. Two deliveries of one message are the platform's first retry; a
  third only repeats the second. One user sends every message, so that the
  service and the workers meet in one session.
- *Clawbot bridge.* The log is longer than the page, so a message is met on a
  later page and again by the next callback; with two pages the last message of a
  full log is beyond what is read, and `Reachable` excuses it, as the code does
  beyond 5 × 1000. The cached token was replaced before the run, so the first
  request already meets `errcode 40014`; one more can be replaced in the middle of
  a page, and then the repeated request is refused too. One fault and one death put each cause of a second reply
  (an answer that was lost, a death before the mark, an id that changed) into one
  behaviour.
- *Automation.* Three faults and two deaths, in four releases: a retry that
  fails, an activation which takes effect after its retry, and a run after a
  death all fit in one behaviour.
- *Crawl.* One task fills the request pool and the other the parse pool, so both
  limits are met; two tasks let one session expire under a request while the
  other has been sent with the old one. Two attempts are an interrupted run and
  its resumption, with the same plan, a smaller one, `--max-tasks` or without the
  database. `ImplementsLedger` maps `rows` and `credit` to the database and leaves
  `live` as it is.
- *Live query.* The first release was made, one build after its data was
  published locally, when the run begins. `ReleaseIsOfOneMoment` is about every
  release, those too during whose build the database was written: what is not of
  the moment of the build is later than it, prices never come from an import that
  the release does not hold, nor from a later one than the summary names. Two
  releases and two switches let a
  cache be filled from one release and used under the next; two threads let one load the index while the
  other has read an older marker. Threads and runs are symmetric; there is no
  liveness property in that run.
- *Market answers.* The bags are all those of up to four quotes from a few
  prices, days, statuses and merchants, those about the turn of the year, and larger
  ones in which two groups of near prices of one status, or of two, meet at the
  sizes where the rules change, which reach every branch of the clusters
  and thresholds; the shelves hold families whose titles contain each other (17,
  17 Pro, 17 Pro Max), colours that are words of other colours, and capacities
  with and without a price, one of a price of 0, an article without a group title
  beside one with it. A quote's price may be missing, or 0, which counts as a
  price (`numeric_rows`) until a variant computed from the rows or the summary of
  a narrowed capacity takes it for a missing one (`_variant_from_rows`, `coerce_int`).
  Nothing has to follow an opened article.

`CHECK_DEADLOCK FALSE` stands where the system may stop: when no customer writes
(WeChat, clawbot), when the attempts are used up (crawl), when the releases and
requests are (live query). `market_answers` never stops: a run can always be
published again.

### Fairness

- `WechatOfficial`: weak fairness of `Service` and of each worker. systemd
  restarts each process (`Restart=always`), the worker loop polls. Nothing is
  assumed of users, of the platform, or of faults and deaths.
- `ClawbotBridge`: weak fairness of `Step` (a request returns or times out), of
  `Post(Sync)` (callbacks for the account keep coming while its customers write:
  the code has no timer of its own), and strong fairness of `Take(Sync)`, because
  the server handles callbacks in the order in which they come and a direct one
  may make it wait but not for ever.
- `ProdAutomation`: weak fairness of `Start` without options (the scheduled
  task), of the running process, and of the server finishing a request it has.
  The operator owes nothing, so `PendingIsSynced` excuses behaviours with a
  death; a torn `pending_sync.json` also comes from a death only.
- `ReleaseStore`, `CrawlRun`, `LiveQuery`, `MarketAnswers`: none; every property
  is a safety property. The main thread of a crawl ends, because every request
  has a timeout and all retries are counted, but its graph with fairness is beyond
  the time of a run.

### Findings

Four statements of the documents and tests do not hold of the code;
`PROJECT.json` quotes them.

1. A query with a capacity and its unit ("苹果17 256G") ranks another family first
   (`CapacityNoiseKeepsTheFamily`): `strip_refinement_tokens` leaves the unit,
   which `normalize_query_surface` has parted from its number.
2. A deployment that fails after its backup, or that activates the live release
   again, makes the rollback target equal to the live release
   (`RollbackFallsBack`).
3. An error at the first rename deletes the live release
   (`FailedDeployKeepsLive` with `retire` as the fault).
4. A worker that dies while it writes a session makes every later callback of
   that user answer 500 (`CallbackUnaffectedByWorker`).

Besides these, the models show things that no document denies. A maintainer may
want to know of them:

- The live switch is two renames; between them nothing is live. A query in that
  gap makes SQLite create an empty database where the new release is to be moved
  to; the rename fails, the deployment with it, and the undo puts the old release
  back (`SwitchEndsServed` says that it does). When two queries fall into one
  switch, the second one's empty directory may stay.
- A clawbot message that cannot be answered blocks all messages behind it, in
  this callback and in every later one. Pages beyond the fifth are never read.
  Only `errcode 40014` makes a token be fetched again. An id that is a hash or a
  second of arrival is another one after a restart or for a redelivery.
- A title's exact label may be in the results without being answered: the
  candidate is `results[0]` (`wechat_official/service.py:250`).
- A refinement that names neither capacity nor colour keeps every group, and it
  leaves the headline price of the unrefined article in place.
- A price of 0 counts as a price in the market but not in the summary of a
  narrowed capacity: when all variants that are left have it, the capacity keeps
  the price it had before (`CapacityPriceIsShown` excepts this).
- The day labels `MM-DD` are compared as texts: 12-31 comes after 01-01
  (`market/price_cleaning.py:37`). It matters within one import only, because the
  time of import is compared first.
- A majority of the merchants does not always make the market: of four quotes of
  1000, two of 3200 (the same status) and one exact quote of 1500 the price is 1500.
  The quartiles lie so far apart that all six are one cluster, and its spread costs
  it more than its size gains (`market/quality_engine.py:134`). `MajorityMakesTheMarket`
  says what share of its status is enough.
- Quotes are deduplicated before they are filtered by status: a merchant's newest
  quote hides an older valid one also where it is not valid itself.
- The bootstrap import of the crawler calls `persist_run_event` before it is
  defined (`agent/crawler.py:2327`): an attempt that imports ends there, and the
  next one goes on.
- Tasks that got no rows are not scheduled while others are open
  (`agent/crawler.py:1658`).
- The key of the search cache is the live run and its number of rows, taken from a
  marker that is read in three reads. Releases which are alike in both are not
  told apart. With three releases it takes less (the proof of `SearchSafe` found
  it): a request that reads the run of one release and the rows of the next, across a
  switch, stores its answer under the key of a third (`Alike`).
- A title without a key is looked up in the live release.
- What the code has no means against is not what a property promises: a reply that
  is lost because the trace could not be written, a claimed task whose worker died,
  a torn file at the head of the queue, a stale lock, a torn `pending_sync.json`,
  a collected task recorded again as failed, tasks imported without their rows, a
  release built again of the same run, a text that cannot be replied to and texts
  beyond the pages. `PROJECT.json` lists them as hazards without a property and says which
  property leaves them out.

## Proofs

`ReleaseStoreProofs` proves, for every set of workers and releases, every
bound on errors and crashes and every retention setting:

- `TypeCorrect`: `Spec => []TypeOK`. `TypeOK` is not inductive, because a step
  that looks up `history[job[w].rel]` needs a release there, and a rollback has
  none. `Typed` adds `NamesRelease`: a worker in a step of an import or a
  deployment names a release. `TypeNext` and `NamesNext` go through the actions;
  the lemmas `Job...` say that each update of a request leaves a request.
- `LiveOrPreviousSafe`: `Spec => []LiveOrPreviousIntact`, under two named
  assumptions. `OneAtATime`: the clients wait for each answer. `FaultPoints`
  holds none of `UnsafeFaults`: no I/O error at the first rename of the switch,
  at the removal of the retired directory, in the check after the switch or in
  clearing the live directory. `LiveInv` strengthens the property by what each
  place in the code knows (`Progress`): the live directory is never torn;
  `had_live_before` still tells the truth when the backup is made; the source of
  a switch is whole; during a switch of an established store the rollback target
  is whole. Crashes need nothing more: the removal of a live directory begins
  only where `current` is already absent.

- `CompletedDeploySafe` (`CompletedDeployKeepsBoth`) and `NoResidueSafe`
  (`NoResidueWedgesTheStore`), under `OneAtATime` only, from `RequestInv`: `Own`
  says that `history/<id>` holds that release, whole or in part, never another
  one; `Serves` follows a request from place to place (what the source of its next
  copy holds, what the switch has moved where), so that without an error of its own
  no step of it can fail on what others left.
- `FailedDeploySafe` (`FailedDeployKeepsLive`) and `RollbackSafe`
  (`RollbackIsAllOrNothing`), under `OneAtATime` and with no I/O error at the two
  steps where `release_failed_deploy` shows one to be fatal (`SwitchFaults`: the
  first rename and the last cleaning of the switch). `UndoInv` adds `Undone`: what
  the undo of each step puts back, as long as the request met one error only.

`ProdAutomationProofs` proves, for any number of processes, releases, faults and
deaths, `TypeCorrect`, `OneRunSafe`, `PendingSafe`, `FailedSyncSafe` and
`LiveMonotone`, all from one inductive invariant `IInv`:

- `OneRunAtATime` itself; the other parts are facts of the one running process.
- `Ordered`: each release that can still be activated (the one a process syncs,
  those in `late`, the pending one if it is on the disk) is the oldest on the
  disk (`Front`), and no release on the disk is older than the live one. So an
  activation never goes back, whenever it takes effect. A pending release that a
  run skipped is pruned before the next release is uploaded, and `ReadPending`
  refuses it from then on.
- `Local`: what `main()` knows at each step, such as that a run which builds a
  release has no pending one left, or was told to skip it.
- `Remembered`: `FailedSyncIsRemembered` with the runs in progress.

`LiveMonotone` rests on the modelling assumption that the server's late requests
end before the next release is built (the guard `late = {}` of `Pipeline`).

`ClawbotBridgeProofs` proves, for any messages, page size, number of pages,
faults, deaths and tokens, `TypeCorrect`, `NoIdleRepeat`
(`SecondReplyHasACause`) and `NoTextDropped` (`ProcessedTextWasAnswered`).
Neither property is inductive alone. The invariant `IInv` adds `Places`: while a
reply is being sent the message at the head of the page is in the inbox and has
no file yet, and while its file is written it has been answered; and
`AnswersAreRemembered`: a message that was answered has its file, or is the one
being marked, or its file was lost on a way the property admits. The lemma
`NamedIdIsUnique` says that a named message shares its id with no other, and
`IdIsStable` that an id changes only where `Nameless` excuses it; `StepKinds`
sorts the steps by what they do to replies and files, so that each remaining
lemma has few cases.

The same module proves of `CallbackEnvelope`, for bodies of every length, that
padding fills whole blocks (`PadFillsBlocks`), that unpadding undoes it
(`UnpadOfPad`), and that what is sealed for a receiver opens to its body
(`OpenOfSeal`). The arithmetic is in `DivMod`, `PaddingFillsTheBlock` and
`WordHoldsLength`; `FrameCuts` says where the frame is cut.

`WechatOfficialProofs` proves, for any messages, workers, tasks, errors and
deaths, `TypeCorrect`, `OneAnswer` (`AnsweredAtMostOnce`), `NoTaskLost`
(`NoTaskVanishesUnanswered`) and `OneTaskAHandling` (`DuplicateOnlyAfterFailure`).

- `Life` strengthens the first two. `OneHolder`: two workers between claim and
  completion hold different tasks, because a claim is one rename. `Work` says
  what each worker knows of its task at each step, such as that one that has not
  replied yet holds an unanswered task. `Queue`: a queued task is unanswered, so
  whoever claims it may answer it.
- `Counted` strengthens the third: a message whose dedupe entry is gone or torn
  made no more tasks than handlings of it failed, and while one is being handled
  its entry says `processing`, which turns every other delivery away.

`CrawlRunProofs` proves, for any tasks, command lines, retries, attempts and
errors, `TypeCorrect`, `BacklogSafe` (`BacklogBounded`), `ReloginSafe`
(`ReloginOnlyWhenExpired`), `NotAgain` (`CollectedIsNotRequestedAgain`),
`Implements` (`ImplementsLedger`: every step of the crawl is one of `TaskLedger`,
or none), `CompletedSafe` (`CompletedTriedEverything`) and `GapsReplayed`
(`OpenGapsWereReplayed`). What makes the refinement inductive is `Ledgered`:

- `Logged`: a task credited in the database is credited in `progress.jsonl`, and
  what is credited there has its rows in `all_rows.csv`. So an attempt without the
  database, and an import, find the same tasks collected.
- `Saving`: a result on its way to being credited already has its rows in each
  place.
- `Kept`: outside an import every credited task has its rows, those an
  interrupted import left behind (`torn`) excepted; and no task under way is one
  of these, so that storing its rows never adds a credit.
- `Scheduled`: a scheduled task is neither credited nor under way.

`StepKinds` sorts the steps by what they do to pools, records and sessions, and
each of these invariants is proved once for each kind. The last two theorems
come from `EndInv`:

- `Covered`: once the tasks are loaded, an untried one is held by the schedule, a
  pool, or the result that is being saved.
- `Phased`: what is empty at each phase of `main()`: a run that replays gaps, or
  is completed, has nothing in its pools and, unless it was stopped, nothing left
  in its schedule; a fatal error or `--max-tasks` is behind every stop.
- `GapsSeen`: during a replay pass every gap still open was replayed or is in the
  queue of the pass.

`LiveQueryProofs` proves, for any runs, threads, queries, releases, switches and
size of the search cache, `TypeCorrect`, `ReleaseMoment` (`ReleaseIsOfOneMoment`),
`SwitchSafe` (`SwitchEndsServed`), `IndexSafe` (`IndexIsOfTheRelease`) and
`SearchSafe` (`SearchIsOfTheRelease`): all that the run checks. Steps are of three
kinds (`Building`, `Switching`, `Querying`), and the others of a thread that steps
stay as they are (`Alone`).

- `BuildMoment`: what a build has read is what the local database still says, or
  the database says something later than the build; `BuiltMoment` is the same of a
  release and the database it holds.
- `SwitchInv`: where the old release is at each step of a switch, and how often a
  request made the directory by then.
- `Stamped`: the time of publication of a release is its own, so that markers of
  different releases differ. Nothing weaker will do: `get_live_marker` tells
  releases apart by it.
- `IndexInv`: a thread whose marker has the time of a release saw that release
  serve (`MarkSeen`); what it loads while that release is served is of it
  (`LoadsServed`); and the cached index is the one its marker names, or was loaded
  across a switch away from that release (`CacheRight`).
- `SearchInv`: a content stored under a key is sound (`Sounds`): some release has
  the run of the key, and some its rows, to which this applies: it is of that
  release, or was loaded across a switch and the release is gone; and every request
  that saw the release also saw those that hold what the content says. A switch or a
  request only adds to what requests have seen (`Grows`), so soundness stays.

`MarketAnswersProofs` proves, for any quotes, reference prices and articles,
`TypeCorrect`, `PriceSafe` (`LatestValidDayIsPriced`) and `MajoritySafe`
(`MajorityMakesTheMarket`). The assumptions say that the ids of a run's quotes are
its own (they are row numbers of one table), that its quotes are finitely many, and
that prices, days and times are natural numbers. The invariant is small
(`Published`: a snapshot is one that its run publishes, and the live run has all of
its own); the work is in what a run publishes:

- `RankedSorted`: a finite set in a strict total order has one element of each
  rank, so every sorted list of the code is a list of all its elements in order.
  `CheaperTotal`, `NewerTotal`, `LaterDaysTotal` and `BetterTotal` say that the
  orders are of that kind, the last one only because clusters of a status are disjoint
  (`ClustersArePartition`).
- `PercentileBounds` and `PercentileGrows`: a percentile lies between the prices
  next to its place, and grows with it.
- `CleanIsPart`, `LatestDayIsSelected`, `CandidateRange`, `BestIsFound`: cleaning
  keeps some rows, one day is selected, the market of a candidate lies in its
  range, and one candidate is better than all others. `MarketIsOfTheLatestDay`
  and `PublishedByRun` put them together.
- For the majority, `IsGroup`: more than three quarters of the rows of a status,
  less than 80 apart. The quartiles and the median of these rows then lie in the
  group (`MiddleIsOfTheGroup`, `PercentileIsOfTheGroup`); no method of cleaning
  removes a row of it (`CleanKeepsTheGroup`); no gap in it is wide enough to cut
  (`GroupIsInACluster`); and its cluster outscores every smaller one
  (`GroupOutscores`), which the other clusters of the day are because the group is
  the majority. It is here that the thresholds matter: 80 is the least gap of a cut
  and less than the 120 of an outlier; 14 points a row outweigh the 6 between exact
  and nationwide, 79 of spread and 79 from the reference.

`MarketPagesProofs` goes on to what a user is shown, for any runs, texts, articles
and length of a list: `HitSafe` (`HitShowsItsRun`), `CapacitySafe`
(`CapacityPriceIsShown`) and `RefinementSafe` (`RefinementAnswersTheQuestion`). It
assumes what `ArticleAssumption` and `ScenarioAssumption` say: two articles of one
title have different group titles and every article has its own place in the tables,
texts are sequences of words. The three properties look at one state, but not one
of them is inductive: what a page shows was read when it was opened, perhaps two
publications ago, from a run named by a hit of an earlier search. The invariant
`Opening` says what outlasts each step:

- a hit is a family of the run it names (`IsHit`), whose models and category are
  those of that run, and all that this run publishes stays published;
- an open page shows what the run of its key published (`ShowsRun`), in whole and
  narrowed, and its reason is that of its narrowing.

The rest is about lists. The code sorts, filters, groups and joins, and the proofs
need that nothing is dropped, added or told twice on the way:

- `FirstPlace` (among the places of a list where something holds there is a first)
  stands in for induction. With it, `PickedList` and `InOrderList`: choosing or
  ordering the elements of a list keeps exactly those it should, in their order;
  `RankedPlaces` and `ExceedsTotal`: the keys of the code, a list of numbers compared
  place by place and then a text, put any list into one order; `SumsExist`: scores
  and counts add up to numbers.
- For pages: `RunPublishes` and `Listed` (a run publishes one listed price for each
  article it has quotes of), `Aggregated` and `HitsOfTheLiveRun` (a search finds
  families of the live run), `BranchesFound`, `VariantsOfModel`, `BranchOfRun` and
  `AssembledOfRun` (the branches, groups and colours of an opened article are those
  of its run, whichever of the two readers of `get_model_detail` made them).
- For narrowing: `MatchedFits`, `ColoursLeft` and `SnapshotAnswers`: a variant that
  is left has the capacity and the colour that were asked for, one that was removed
  has not, and the price shown is that of a variant which is left.

The proofs corrected the models. `HitShowsItsRun` used to promise that an opened hit
shows every price of its run. It does not: while a run is live, an article without a
group title is left out if its model has articles with one (`server.py:2069`); once
another run is live, the same hit is read from the rows and shows it
(`server.py:1823`). The property now says so, and the instance has such an article
(`plain`), alone with its model, beside it, and in a second run. Three statements about prices were wrong or
hollow: the latest day was the one with the greatest label, which at the turn of the
year it is not; quotes of different articles shared ids in the instance, so that two
rows could not be told apart; and a majority need not make the market (see under the
findings). `IndexIsOfTheRelease` is not true of every
initial state of an earlier version, in which the first release had the same time
of publication as the local database it came from; builds never give that. And
`SearchIsOfTheRelease` used to excuse less than it has to with three releases (see
`Alike` under the findings), which two releases do not show.

The proofs use the named assumptions on the constants only; passing runs
evaluate them. TLC agrees with the invariants: each `IInv` on the instance of its
run, `Opening` on the shelves of `market_answers`, `LiveInv` on the instance of
`release_store` with two errors and without the `UnsafeFaults`.

Model-checked only: `SearchedTitleComesFirst` and the liveness properties.

- `SearchedTitleComesFirst` is a claim about the scores of the titles in the tables,
  and false for arbitrary ones: a family whose title names another brand comes after
  the families of that brand, because `rank_candidates` sorts by brand before score,
  and a list of length 0 has no first element. What makes it true of these titles is
  arithmetic on each of them, which TLC does.
- Fairness and `ENABLED` are out of the prover's reach, and so are
  `EveryTaskAnswered`, `UnblockedTextIsAnswered` and `PendingIsSynced`.

The library's operators on sequences (`SelectSeq`, `FoldLeft`, `FlattenSeq`) are
recursive functions, of which nothing can be proved here for every length. Where a
proof needs a list, `TotalOrder` and `SnapshotRefine` describe it by the places of
its elements instead, and TLC evaluates the same definitions; those that read a
query in `ModelSearch` remain, and the theorems hold whatever they make of it. No
module declares a recursive operator.

## Not modelled

- The wording of replies, what a picture model answers, HTTP, the cipher and the
  hash of the platform: libraries, services or reports; the models choose their
  outcomes freely.
- Operations tools, scripts, configuration, web pages, journals' text, exports and
  manifests of the builder: they report, or run once under an operator.
- The expiry of dedupe entries (24 hours, against redeliveries within a minute)
  and of pending candidates. `get_task_status`, which finds a file and reads it
  in two steps (`recognition_queue.py:151`): it only reports.
- The crawler's first login and catalog call, delays and `KeyboardInterrupt`.
- Reclassification (it imports `core/rules.py`, which the repository does not
  have), the import of reference sheets, external references in a page, hot
  candidates.
- The clawbot's two webhooks and its archive.

## Plan

Done: the release store, the automation, the WeChat processes, the crawl with its
ledger, the live query, market and search, the clawbot bridge; see "Modules". To
come:

1. An abstract `CloudStore` (live release, rollback target, one step per request)
   which `ReleaseStore` implements between requests and which `ProdAutomation`
   uses; a weaker `UnsafeFaults`.
2. Liveness of a crawl on a smaller model of its main loop.
3. The composition of a crawl with the queries: `CrawlRun` publishing the runs
   that `LiveQuery` serves.
4. A reader of `get_task_status` beside the workers; the expiry of the dedupe
   entries with a clock.
