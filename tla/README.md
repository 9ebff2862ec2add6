# MeetSum: models, checks and proofs

MeetSum records meetings (through a bot, a browser, a desktop companion, Google Drive, Teams and
Zoom), transcribes and summarises them, makes them searchable, and pushes the results to people
and other services. It is a Next.js application with a worker process (`worker/index.ts`),
PostgreSQL, Redis (BullMQ queues, rate limits, circuit breaker), an object store, and outside
services (Vexa runs the bots; ASR and LLM providers; mail; Slack, Notion, HubSpot, Google,
Microsoft).

This directory holds TLA+ models of its stateful protocols, the TLC runs that check them on small
instances, and proofs, checked by TLAPS, of theorems about them for every value of their
constants.

    tlc -config DispatchSafety.cfg MCBotDispatch      # one run
    tlapm BotDispatch_proofs.tla                      # one module's proofs

## 1. Inventory

What every part shares: the unit of atomicity is one SQL statement or transaction, one queue call,
or one call to an outside service. Queue and database are written one after the other, never
together. Worker and web processes run several copies of everything below, and any of them may
die between two calls.

### Parts with a protocol of their own

| Part | State it keeps | Operations | What is hard | What makes it correct |
|---|---|---|---|---|
| Meeting bot: dispatch (`lib/bot/dispatch`, `service`, `calendar-sync`, `reconcile`) | `bot_sessions` (status, reason, `dispatch_rev`, bot id), job `bot.dispatch:<id>:<rev>` | send, join now, stop, calendar poll, dispatch job (lock, mark, POST, adopt, redelay), reconcile tick | the job reads the row once and works for seconds; users, calendar, webhooks and polls write the same row; a job that ran out blocks its id | one live session per link; a scheduled session is dispatched or ended; live sessions end; stops win; status order |
| Meeting bot: reports (`lifecycle`, `webhook-handler`) | session status and dates, `bot_webhook_events`, owed side effects | apply a snapshot, process a webhook, poll | late, repeated, reordered webhooks; side effects owed across a crash | rank order; every side effect once or again until done |
| Meeting bot: import (`finalize`) | `recording_status`, claim with a take-over after 35 minutes, job ids | claim, download, store, enqueue ingest, give up | two importers; a slow first one; a stored recording whose ingest was never enqueued | one ingest per recording; no recording stranded in `importing` |
| Search index (`lib/search`) | `search_*` columns, chunks, vectors by content hash, job `meeting.index-<id>` | mark, enqueue, load, embed, write, skip, fail, sweep | the meeting changes while it is read and embedded; adding an existing job does nothing | no lag unseen; claimed version honest; edits become searchable; hybrid means covered |
| Integration deliveries (`lib/integrations/core`) | `integration_deliveries` (status, attempts, lease, idempotency key, progress), jobs | dispatch, claim, gate, provider, outcome, tick, user's retry | crash between send and record; lease overrun; lost enqueue; a rule changed meanwhile | one holder; nobody mailed twice; a loss per fault at most; every delivery ends |
| Integration connections (`tokens`, `connections`, `reauth`) | token, generation, refresh lease | refresh, disconnect, reauthorise | several workers refresh one token; a disconnect during a delivery | one refresh per generation; a disconnected connection holds no token, and the provider no good one where it can revoke |
| Webhook deliveries (`lib/webhooks/delivery`) | `webhook_deliveries`, jobs, in-process limiter | emit, enqueue or inline fallback, attempt, manual retry | row inserted, then job added, nothing sweeps; status read and written without a guard | `sent` stays; a row ends; never more requests than the limiter allows |
| Jobs and meeting pipeline (`lib/jobs`) | `jobs` records, BullMQ jobs, meeting status | enqueue (with a timeout), ingest, transcribe, summarise, retry | a late add after a failed record; a stalled-out job whose record stays `active`; an idempotent id that exists | record and job agree in the end; a meeting is processed once |
| Offline upload (`lib/client/upload-queue`, recorder, ingest route, `lib/capture/desktop-upload`) | IndexedDB chunks and items, Web Locks, meeting, asset, job | record, finalize, recover, flush, ingest, discard | two tabs; a recovery of what another tab is recording; an outcome written from a stale copy; a discard racing a repeated request; two overlapping requests that both enqueue | no recorded audio is lost; one meeting, asset and job per capture |
| ASR routing (`lib/ai/asr/breaker`, `router`) | failure counts and open circuits in Redis | try providers in order, count, open, close | get and set are two calls; a late failure after opening writes a state without `openUntil` | an open circuit stays open for its cooldown; a failing provider is opened |
| Workspaces (`lib/workspaces`) | memberships, invitations | invite, accept, resend, revoke, change role, remove | two owners demote each other; two accepts of one invitation; locks taken in no fixed order | always an owner; one acceptance |
| Drive import (`lib/google/services`) | `drive_files.imported_at`, meetings | sync, import under an advisory lock, enqueue | `imported_at` is written before the enqueue | an imported file is processed |

### Parts without one

Ask (`lib/ask`, one atomic daily counter), sharing (one row per request, an atomic throttle),
rate limiting (a Redis script), notifications (one statement, a unique dedupe index and a cap),
clips (count and insert under an advisory lock), comments, tasks, analytics, settings, email, PDF,
player, media tools, storage and retention, authentication, translations, onboarding, the PWA
shell, the MCP server and the command line. They are pure functions, formatting, or single
statements whose atomicity the database gives. `PROJECT.json` lists each with its files and the
reason it is not modelled.

### How the parts interact

- The calendar sync creates and cancels bot sessions; the bot's import enqueues `media.ingest`.
- The pipeline writes transcript and summary; each write marks the meeting for the index and emits
  a platform event.
- Events are taken up by webhooks (`lib/webhooks`) and by the integration dispatcher.
- The browser's queue calls the ingest route, which creates the meeting and enqueues the pipeline.
- Periodic jobs (bot reconcile, index sweep, integration tick) repair what crashes and lost
  enqueues left behind. Webhook deliveries and the `jobs` table have no such pass.

## 2. Plan

Order is by importance: what costs a user a recording or reaches other people comes first.

| # | Modules | Subject | State |
|---|---|---|---|
| 1 | BotTypes, BotDispatch, BotDispatch_proofs | sessions, dispatch, stop, calendar, reconcile | done |
| 2 | SearchIndex, SearchIndex_proofs | the index and its sweeper | done |
| 3 | IntegrationDelivery, IntegrationDelivery_proofs | deliveries of a rule | done |
| 4 | RecordingQueue, Capture_proofs | the browser's offline recordings: tabs, chunks, items, flushes | done |
| 5 | CaptureIngest, Capture_proofs | the requests that queue sends: meeting, asset, job | done |
| 6 | BotFinalize, IngestOnce, BotFinalize_proofs | the import of a bot's recording, as a refinement of one ingest per recording | done |
| 7 | TranscriptEdits, TranscriptEdits_proofs | edits, undo, speakers, clean-up, readers' caches | done |
| 8 | MeetingPipeline, MeetingPipeline_proofs | jobs, attempts, stalls, the merge of tasks, events | done |
| 9 | IntegrationConnection, IntegrationConnection_proofs | refresh under lease and generation, reauthorisation, disconnect | done |
| 10 | WebhookDelivery | rows, jobs, inline fallback, manual retries, the limiter | planned |
| 11 | AsrBreaker | shared counters, several workers; an open circuit stays open | planned |
| 12 | Membership | last owner, invitations | planned |

Abstract specifications: one ingest per recording (`IngestOnce`, refined by 6); at-most-once mail
(3, as `NobodyTwice`); a single live session per link (1, as `OneLivePerTarget`).

## 3. Models

### BotTypes and BotDispatch (`lib/bot`)

BotTypes has the statuses, their ranks and lateral moves (`CanTransition`, types.ts) and the
mapping of Vexa's statuses (`MapVexaStatus`). BotDispatch has:

| Variable | Code |
|---|---|
| `row` | `bot_sessions`: status, reason, `dispatch_rev`, whether a POST was tried, bot id, origin |
| `job` | BullMQ's job `bot.dispatch:<session>:<rev>`, with the attempts and the workers it lost; `finished` and `failed` are jobs kept under their id |
| `wk` | where the worker of that job is in `runDispatch` |
| `act` | where the api, the calendar poll and reconcile are in their handlers, with the rev each read |
| `bots` | Vexa: a bot's phase and whether it was told to leave |
| `faults` | crashes, lost enqueues and failed database calls used up |

Each step of `runDispatch` up to the next call that leaves the process is an action: the row is
read (and the lock released), the session counted and marked `requested`, tagged with the attempt,
the POST made with its outcomes (accepted, refused for good, for capacity, conflict, timeout with
or without a bot), the id recorded, the stop checked, a running bot adopted, a redelay written
and enqueued. The guards of `store.update` (`expectedRev`, `expectedStatus`) and of
`transitionStatus` (rank) are those of store-postgres.ts; the partial unique index of migration
024 is `Conflicts`. The calls before the mark may throw (`Throw`: the read, the count, the mark),
which costs the job an attempt; a worker that dies costs it a stall, and one more than `MaxStalls`
(BullMQ's default, one) fails it.

Left out: consent, quotas and preflight, deleted meetings, dates, owed side effects, bots that
fail on their own. Time is not modelled: a window that may have closed is a choice. Adopting
merges its two lookups.

### BotFinalize and IngestOnce (`lib/bot/finalize`, `retention`)

| Variable | Code |
|---|---|
| `rec`, `fresh`, `ingestJob` | `bot_sessions`: `recording_status`, whether the claim is younger than 35 minutes, `ingest_job_id` |
| `locker` | whose transaction holds the session's row |
| `meeting`, `assets`, `objects` | the meeting's status, its media assets, copies in the object store |
| `hollow`, `leaked` | assets whose object was deleted again, objects without an asset whose deletion failed |
| `vexa` | whether Vexa has the recording, had it erased, or has not published it |
| `ingest`, `ingests` | the job `media.ingest:bot:<session>` and how often one was added |
| `job`, `run` | the job `bot.finalize:<session>` and where each run of it is |

A run claims, locates, streams, inserts the asset (`Asset`), moves the meeting on in a second
statement (`Promote`), checks the session again in the transaction that enqueues the ingest, commits
or fails. Every call may fail, those of the error paths included: a failing `Promote` has the object
deleted under the asset (`Half`), a failing deletion (`Undo`, `Half`) is swallowed and leaves the
object, a failing write of the outcome (`StoreFails`) is swallowed and leaves `importing`. `job.cut`
says that the last attempt ended without writing its answer. Between any two of these it may die, fail, or lose its lock
and live on while BullMQ gives the job to another worker (`zombies`). Retention erases Vexa's copy.
`IngestOnce` is the promise: an ingest once, recorded once and for good.

Left out: the eviction of a finished ingest job after 250 others, `status_reason`, the speaker
timeline. BullMQ's default of one stall is the instance's.

### RecordingQueue (`lib/client/upload-queue`, the recorder and its provider)

| Variable | Code |
|---|---|
| `chunks`, `item` | the IndexedDB stores: chunks of a capture, its queued item (blob, state, `nextAttemptAt`) |
| `rec`, `home`, `made` | the recording, the tab that makes it, the chunks it wrote |
| `task` | the storage work of a tab: the stop of a recorder, recovery at mount, a discard |
| `flush`, `timer` | a tab's flush with the copy of the item it read, and its retry timer |
| `open`, `signedIn` | tabs and session |
| `stored`, `attached` | what the server holds |

Every IndexedDB transaction and every answer is a step, so a flush works with a copy that recovery,
a discard or another tab may have changed. Uploads fail for now, for good, or for want of a session.

Left out: browsers without `navigator.locks`, where every tab runs unlocked (browser.ts:58), a change
of user or workspace, the memory fallback, failing chunk writes, storage limits,
late requests of a tab that was closed, a fetch that never returns. (types.ts:22 names `uploading`
as a state an item is stored in; no code stores it.)

### CaptureIngest (`api/desktop-capture/ingest`, `lib/capture/desktop-upload`, `enqueueJob`)

| Variable | Code |
|---|---|
| `meeting`, `born`, `filled` | the capture's meeting (0 for none), how many were created, whether it has a transcript |
| `asset`, `objects` | the asset's object and the objects in the store |
| `record`, `queued` | rows of `jobs` and jobs in BullMQ |
| `req` | where each request is, and what it found or created |

A request stores its file, finds or creates the meeting, inserts the asset (`Asset`) and moves the
meeting on (`Promote`), looks for a job to reuse, records one, adds it with a time limit; an error
discards the meeting it made and, unless it knows its asset persisted, its object. Any query may
fail, those of the error path included: a job's row may be there although the request that recorded
it failed, or of a meeting that is gone; `AddFails` may leave its row `queued`, as the write of
`failed` is swallowed (jobs/queue.ts:280); a failing `Promote` leaves the asset without its object
(`PromoteFails`). An add whose time ran out may still arrive (`AddLate`). `req.cut` and `record.add`
remember how a request and an add ended, for the properties.

Left out: failing deletions of objects, transactions that commit although their caller saw an error,
uploads without a capture id, transcripts sent along.

### TranscriptEdits (`lib/meetings/postgres-repository`, `use-meeting-transcript`, `processor`)

| Variable | Code |
|---|---|
| `segs`, `revs`, `spk`, `version` | segments, `transcript_segment_revisions`, speakers, `transcript_version` |
| `run` | which transcription wrote the segments (part of their ids) |
| `snap` | what a clean-up read and has not written back |
| `view`, `wire` | what a page shows with its ETag, and its request under way |
| `edits`, `reborn`, `blind` | history for the properties |

Every writer is one transaction under the meeting's lock. Reads are two statements; the page folds
answers of its own edits into what it shows. A turn is recomputed at every change of speaker, and
a change of a turn is undone as a group.

Left out: word realignment, speakers' display names and mapping, patches of text and speaker
together, duplicates and terms in the clean-up. A speaker's label stands for its row; the version
read and the 304 are one step; one worker.

### MeetingPipeline (`lib/jobs`, `action-item-merge`)

| Variable | Code |
|---|---|
| `meeting` | the meeting's status |
| `items`, `created`, `summary` | its tasks by id, the number of a title's next task, whether there is a summary |
| `name`, `row`, `entry`, `attempts`, `stalls` | a job's name, its row in `jobs`, its entry in BullMQ |
| `run` | a worker's attempt: the tasks known before, the model's output, the plan |
| `announced` | `action_item.created` events sent, for each creation (an id, and which task it was under it) |
| `last`, `adrift` | how the last job ended, and which accident left the meeting without one |

An attempt marks the job active, loads, transcribes or imports, summarises, merges tasks in one
transaction, announces, completes the row, acknowledges. Errors before and after the merge go
through the retry and failure paths of `processJob`; a process that dies leaves its entry to be
taken again until it has stalled too often. People create, rename, complete and delete tasks.

Ids matter: a task the language model found has `<<title, 0>>`, the hash of meeting and title
(intelligence/pipeline.ts:364), so one that is removed and generated again has its old id. Tasks of
people, those of the local fallback, and those whose id is in use have others, `<<title, n>>`. The
merge's query sees the tasks of its start and then waits for their rows (`PlanMerge`, `LockRows`);
two merges that would insert one id collide on the primary key, and the later attempt fails.

`MarkActive` fails outside the `try`, so nothing hears of it (`MarkFails`); `Retry` may fail to write
the row. The code allows two stalls, the instance one. Concurrency is one unless
MEETSUM_WORKER_CONCURRENCY says otherwise.

### SearchIndex (`lib/search`)

| Variable | Code |
|---|---|
| `meeting` | the transcript's content and its version, notes, whether a summary exists |
| `index` | `search_state`, `search_mode`, the version claimed, the chunks, whether the mark is later than the run that wrote it |
| `vectors` | content hashes in `meeting_chunk_embeddings` |
| `job`, `run` | the one index job and what each worker has read so far |
| `editor` | requests between commit, version, mark and enqueue |

A run reads the version, the segments and the notes by separate queries, so edits fall between
them; it then asks which vectors exist, embeds the rest (which may fail with some of them done),
and writes state and chunks in one transaction, which refuses a version that is no longer
the meeting's. The sweeper's selection is `Stale`.

Edits of segments and merges of speakers commit text and version together (`EditTranscript`); the
rename of a speaker or participant commits the name, and the version in a second statement
(`RenameSpeaker`, `Bump`), which may fail (fault "bump") and then nothing is marked.

Left out: one meeting is modelled, so the sweeper's batch of 50 never fills (a batch headed by
meetings that stay lexical could starve others); a single embedding key; one clock, although
`search_indexed_at` is the worker's and `search_requested_at` the database's; a request does not
die between its commit and its mark except as the fault "mark".

### IntegrationDelivery (`lib/integrations/core`, `email-recap`)

| Variable | Code |
|---|---|
| `row` | `integration_deliveries`: status, attempts, lease, whether it holds the idempotency key, progress (`sent`, `pending`) |
| `job`, `adding` | BullMQ's jobs of a row by kind of id, and adds not yet done |
| `wk` | the delivery each worker runs, step by step |
| `gate` | what `evaluateRule` would say now |
| `got` | emails each recipient really got |

Claiming takes the row if it is `queued` or `retrying`; the gate is asked; each recipient is
written to `pending` before the mail and to `sent` after it; the outcome is written; the job is
acknowledged, retried or failed by the queue. The tick takes up rows whose lease ended and adds
jobs for rows that still wait for their first one.

Left out: other providers and connections, manual sends, the window of the hourly cap (a choice in
`EndSending`), recipients that change between attempts (that there are none is folded into the
gate), retention. A failed write of the outcome is a crash before `Finish`; a stall is
found at once.

### IntegrationConnection (`lib/integrations/core`: `tokens`, `connections`, `reauth`)

| Variable | Code |
|---|---|
| `row` | `integration_connections`: status, `token_generation`, refresh token, whether `expires_at` is near, `refresh_lease_until` |
| `current` | the service: which token of each grant is good (a refresh replaces it) |
| `caller` | where each delivery, test or picker is in `getAccessToken`, and the generation it read |
| `leaver` | the disconnect, between the wipe and the revocation |
| `revokes` | whether the provider can revoke (`oauth.revoke`; Microsoft's and Notion's cannot), fixed at the start |
| `accidents`, `faults` | faults so far |

A caller that finds the token expiring takes the lease (one conditional update), calls the service
with no lock held, and writes under the generation it read; tokens that come too late are revoked,
a refused one flags the connection. Every write of a caller is `updateConnectionIfCurrent`
(`Same`). Reconnect and disconnect hold the row's lock and raise the generation. A token is given back
to the service only where it can revoke (`GiveBack`: connections.ts:258, tokens.ts:264).

Left out: the single flight inside one process (callers are processes), the OAuth state of an
authorisation under way, the new row when a revoked account connects again, an exchange without a
refresh token, configuration. What a disconnect cancels of rules and deliveries is not composed
with IntegrationDelivery, whose email provider has no connection.

## 4. Runs

Bounds are the CONSTANTS of the cfg files; each module's header names those that are bounds and
not part of the code.

| Run | Instance | Shows |
|---|---|---|
| dispatch_safety | 1 session, 1 bot, rev 0..1, calendar, send, stop, webhook, 1 attempt, no stall, 1 fault (one is enough to use a job up) | a session is left `scheduled` behind a job that is over only where faults used that job up; the status goes back only under a new rev |
| dispatch_ends | 1 session, 2 tries, no webhook | a live session ends: retries run out, the bot leaves, reconcile notices |
| dispatch_recovers | 1 session, 2 attempts, 1 crash, lost enqueue or failed call, rev up to 5 | a scheduled session is dispatched or ended |
| finalize | 2 workers, 3 attempts, a crash, 2 failing calls, a worker that outlives its lock | one asset unless a live claim was taken over; no orphaned object but by a crash or a failed deletion; nothing erased unheld but by a deletion under an asset; refinement of `IngestOnce`; the recording settles unless its last attempt could not say so |
| queue | 1 tab, 2 captures (one for a meeting), a fault, a discard | no recorded chunk is lost; what left the browser does not come back; every ended recording reaches the server, is refused or discarded; what the server holds leaves the browser |
| ingest | 3 requests of one capture, 2 accidents (a failed query, a lost add, a dead server) | an answered capture is stored, unless on an asset that lost its object; retries record one job; no orphaned object; it is processed in the end, unless a row was left `queued` that nobody adds |
| edits | 2 pages, 2 segments, 2 speakers, 4 calls | no ETag hides a change; an edit is blind only after a clean-up; turns; undo restores all of an edit; the clean-up keeps what it promises |
| pipeline | 2 jobs of any kind, 1 worker, 2 attempts, an error, 2 crashes, 1 change by people | one task per title; each creation announced once; the meeting and the rows show how jobs ended; people's work is kept |
| index_safety | 2 workers, a meeting with or without a transcript at first, 1 request with 2 edits or renames, one crash, lost lock, inline run, failed embedding or lost enqueue | a lag is always seen unless the meeting was skipped; an index that claims the meeting's version has its transcript, and the indexed transcript never goes back, both but while a rename is half done; edits are indexed in the end, unless skipped |
| delivery_safety | 2 workers, 2 events, 2 recipients, 1 fault, 1 user's retry | one holder; nobody twice; a loss for each fault at most; outcomes stay |
| delivery_ends | 2 workers, 1 fault of any kind, a change of the gate | a delivery ends |
| connection | 2 callers, 2 grants, 3 tokens of each, 1 fault of any kind | a refresh token is sent once at a time; the status tells the truth of the token; a disconnect leaves no token stored and, where the provider can revoke, nothing good; callers return |

One more cfg file passes and is kept beside the runs: QueueSafety (two tabs, two chunks, two
faults: `Kept`, `StoredWhole`, `ItemWhole` and types).

Why the bounds are enough. A reschedule needs two revs to make a job stale; reconcile needs more,
as it raises the rev at every repair, hence 5 in dispatch_recovers. Two workers overlap in every
way a pair of runs can; the third reads what the first two left. Three requests are one that
creates, one that repeats it while it runs, and one after both. Two edits put one before and one
after any read. Two recipients tell "reached some" from "reached all"; two events are one to free a
key and one to use it. Four calls are an edit of a turn, an edit in it, an undo of each; two
segments make one turn or two. Two jobs are a processing of a meeting and its repetition; two
crashes use up a job's stalls. In finalize two failing calls are one of a step and one of its error path;
in ingest the second accident meets what the first left. Two grants are the one before and the one after a reconnect, and a
token that was used twice is refused as one used once. What the theorems of section 6 cover is
proved for all values.

Deadlock is checked in the dispatch runs (`Settled` is the one legal end: every session is
terminal). The others may end when their edits, requests, faults and events are used up, so they do
not check it.

Fairness. Weak fairness on what a process that is alive does next, on taking a waiting job (BullMQ
workers poll), on the passes that a scheduler repeats (reconcile, sweep, tick), on the passing of a
retry window, a claim's age or a lease, and on a bot's leaving (Vexa's automaticLeave, which
`runDispatch` always sets). RecordingQueue adds what its user does in time: opens the app, signs in
again (weak), presses retry (strong, as the button comes and goes); `UnattendedSpec` is the same
without the retry and does not settle every recording. CaptureIngest's client repeats an unanswered
capture; IntegrationConnection makes nobody give up waiting. Nothing makes the calendar or a
webhook act, nor a fault happen. The action restrictions by `Actors`, `Faults` and `Gates` leave
out actors or faults from an instance; they never strengthen a step.

## 5. What the code's comments say and the models refute

Properties that say what a comment or a document says, and cfg files by which TLC refutes them.
Where no cfg is given the property is in the module named.

| Cfg | Property | The comment | What happens |
|---|---|---|---|
| DispatchStop | `StopWins` | dispatch.ts:263 "A user stop or a cancel that landed meanwhile wins" | the redelay writes `scheduled` under the rev only, over `stopping` |
| DispatchStale | `StaleJobIsNoop` | dispatch.ts:25 and m7.md:458, a stale job is a no-op | the rev is compared before the mark, which does not compare it again (dispatch.ts:399) |
| DispatchUnheard | `StoppedBotIsTold` | service.ts:542, the dispatcher stops the bot a POST starts | the id is stored between the stop's read and its write (service.ts:545) |
| (BotDispatch) | `NoStrandedSession` without its exception (`j.st # "failed"`) | reconcile.ts:154, a due session without its delayed job is dispatched again | every attempt throws before the mark (dispatch.ts:363, 387, 413), or one more worker dies than the job may lose; the failed job is kept under its id, and reconcile takes it for one to come (reconcile.ts:158) |
| (BotDispatch) | `LiveOneKeepsRunning` | calendar-sync.ts:385, a live one keeps running | `cancelled` outranks a live status that came after the read (calendar-sync.ts:230) |
| (BotDispatch, sessions of two workspaces) | `OneLivePerTargetAnywhere` | types.ts:25 "One per target instance-wide" | the index of migration 024:59 is per workspace |
| FinalizeOverwritten | `ImportedIsFinal` | a recording that is imported stays so | an importer whose claim was taken over writes its failure over the other's success; `OneAssetEver` fails with it |
| FinalizeStuck | `AlwaysSettles` | finalize.ts:275, every completed session gets an answer | a run that dies on its last attempt leaves `importing`; its replacement finds the claim young and is the last |
| (BotFinalize) | `NothingErasedLost` | retention.ts:12, purged once our copy is imported | createMediaAsset throws after its insert and the object is deleted under the asset (finalize.ts:461); the retry takes the asset for the recording, says `imported`, and Vexa's copy is erased |
| QueueRecovered | `KeptAlways` | queue.ts:6 and 7, at most one chunk is lost; recover takes a closed tab's | recovery takes the chunks of a recording another open tab is making, and later ones are dropped with the upload |
| QueueResurrected | `DiscardStays` | a discard removes the recording | the copy of an upload under way is written back when that fails (queue.ts:307) |
| (RecordingQueue) | `AttachedOnce` | command-center-shell.tsx:862, one upload for a meeting's recording | a flush may send the queued copy before it is removed |
| IngestDiscarded | `AnsweredIsKept` | an answered capture is stored | of two overlapping requests the one that made the meeting discards it with the other's asset; `NeverTwoJobs` fails likewise |
| (CaptureIngest) | `AnsweredIsSomewhere` | an answered capture has its file | createMediaAsset throws after its insert (postgres-repository.ts:2438): the object is deleted (desktop-upload.ts:244), the asset stays and answers the retry |
| (CaptureIngest) | `AnsweredIsProcessed` | route.ts:65, a retry finds the job | a row that says `queued`, whose server died before the add, or whose failed add could not be written down (jobs/queue.ts:280), answers every retry |
| EditsBlind | `NeverBlind` | repository.ts:269, "a mismatch raises TranscriptConflictError" | a clean-up inserts segments with revision 0 again, and an old revision matches |
| EditsLost | `EditsSurvive` | processor.ts:1081 "manual edits survive" | the edit of a filler after the clean-up's read is dropped; `SpeakersSurvive` and `UndosSurvive` fail for changes in that window; with `Keep` = 1 a prune leaves half a turn undone (`UndoIsWhole`) |
| (MeetingPipeline) | `NeverLeftInProgress` | a failed job marks its meeting `failed` | a job that stalls too often runs no failure path; likewise an import that finds nothing new and queues nothing |
| (MeetingPipeline) | `AllAnnounced` | every new task is announced | an attempt that died after its merge knows its tasks as old when it is repeated |
| (MeetingPipeline) | `AnnouncedOncePerId` | one `action_item.created` for each id | a task that was removed is generated again under its old id, and announced again (processor.ts:566) |
| PipelineTwins | `OneTaskPerTitle` | regenerating replaces tasks | of two jobs of a meeting at a time one is answered by the language model and the other by the local fallback, so their ids differ, and neither merge sees the other's task; `AnnouncedOnce` fails with them |
| IndexSkipped | `SkipHidesNothing` | index-trigger.ts:11 an edit during a run "is caught by the sweeper" | `markSkipped` stamps the version and the time of its update, not of its load; with the fault "mark" `LagIsSeen` fails, as a failed mark is only logged (index-trigger.ts:126) |
| (SearchIndex) | `NamesNeverGoBack` | postgres-repository.ts:1826, a changed name changes the version | between the two statements of a rename (postgres-repository.ts:2577, 2589) both names have one version; `LagIsSeen` fails where the second statement does |
| IndexUncovered | `RestingHybridIsCovered` | index-store.ts:54, hybrid means every chunk has a vector | which vectors exist is read outside the transaction (indexer.ts:123) |
| DeliveryTwice | `NobodyTwice` | dispatcher.ts:8 "so reprocessing never re-posts" | a skip after a partial attempt frees the key |
| DeliveryOverrun | `OneHolder` | worker.ts:77 "so a live worker is never pre-empted" | an attempt slower than its lease is taken over (worker.ts:89) |
| DeliveryStranded | `DeliveryEnds` | deliver.ts:13 `retrying` with backoff | a `retrying` row whose job is gone is not swept (deliver.ts:238); after a lost retry of a user's the tick adds an id that a finished job may still hold (worker.ts:109) |
| (IntegrationDelivery) | `FailedSentNothing` | deliver.ts:15, failed after some were sent is `partial` | the tick fails a row at its attempts' end without looking at its progress (worker.ts:82) |
| (IntegrationConnection) | `DisconnectEndsTheGrant` | a disconnect ends the access | where the provider cannot revoke the grant stays good: microsoft/provider.ts:153 "disconnect wipes locally" |
| ConnectionWide | `StatusIsTrue` | tokens.ts:163, only the orphan tokens are revoked | where revoking a token ends every grant of the account (google-docs/oauth.ts:156), tokens that come after a reconnect take the fresh grant with them |

## 6. Proofs

All theorems hold for every value of the constants allowed by the module's assumption
(`DispatchAssumption`, `IndexAssumption`, `DeliveryAssumption`, `FinalizeAssumption`,
`QueueAssumption`, `NullAssumption`, `IngestAssumption`, `PipelineAssumption`,
`ConnectionAssumption`, `EditsAssumption`), which say that
the special values are no members, that bounds are naturals, that segments are finitely many, and
that selections are subsets of what exists.
A theorem that needs more names it as its own assumption, and a cfg of section 5 shows what
happens without.

**BotDispatch_proofs.** `TypeCorrect`; `ScheduledIsNotStranded`; `NoStepBack`; `OneLive`.
`NoStrandedSession` is not inductive: that a scheduled session's job has not run out depends on no
job, request or redelay being ahead of the row's rev, on workers and active jobs matching, and on
a worker past the mark finding a row that is no longer scheduled under its rev. `DispatchInv` adds
just these (`NothingBeforeCreation`, `NothingAhead`, `WorkersHaveJobs`,
`UnmarkedWhileScheduled`). That faults alone use up such a job (`SpentByFaults`) is a
count: while a session is scheduled, the attempts and workers its job has lost are no more than the
faults (`AttemptsAreFaults`). The proof sorts steps into those that touch nothing it speaks of and
dispatch, crash, report, request and queue steps, with lemmas on reschedules, transitions and
creations. `OneLive` needs types only, since every write that makes a session live is guarded by
the index, whoever writes.

**BotFinalize_proofs.** `ErasedIsHeld` and `ImportIsOneIngest` from `ImportInvariant`. The
refinement needs that `ingests` counts what `ingest` says and that a run at its commit, or a session
with `ingest_job_id`, has one (`IngestCounted`); then every step is one of `IngestOnce`'s or leaves
its two variables alone. That nothing is erased unheld is not inductive either: an imported session
must have recorded its ingest (`ImportedIsRecorded`), whoever enqueued one must have had an asset
(`IngestHasAsset`), and once Vexa's copy is gone nobody is left who could put the session back to
`pending` (`ErasedAtRest`: the job is over and no run is alive). `OneAssetPerClaim` and
`ObjectsAreHeld` follow from `CountInv`, which counts runs by where they are: between claim and
commit there is one, and one more for each live claim taken over; a run that is about to make an
asset found none; copies are the assets that are not hollow, one for each run that holds one, and at
most one for each crash and each failed deletion. The same counts give `ClaimsExclude`, `ImportedStaysImported` (who could write another answer
would still be importing) and `ProcessedStaysProcessed`, as long as no claim was taken from a live
run. `ClaimsExclude` is of a meeting that is there: once it is deleted a late run releases a claim
that is not its own, and a third may import beside the second. `TheEndIsAnAnswer` is the safety half
of `RecordingSettles`: a job that is over left an answer, unless its last attempt ended without
writing one (`cut`: it died, met a claim, or its write failed and was swallowed). `SettleInv` keeps that the last attempt
never says `pending`, and, as long as no worker outlived its lock (`QuietFact`), that a run alive
owns the job and that each stall is a crash's, so that the queue gives up no job of a run that
could have answered; the exceptions are those of the property.

**SearchIndex_proofs.** `TypeCorrect`; `IndexIsHonest`; `NeverBack`; `LagNeverUnseen`.
`HonestInv` says of each run how what it has read lies behind the meeting (the version it read is
no newer than the text it read later), which makes "claimed = indexed" stable although two runs
write. `SeenInv` says that whatever a run may still overwrite is marked or about to be. The last
theorem assumes a meeting that starts with a transcript and no lost mark: without either it is
false (section 5, IndexSkipped). A rename makes the transcript newer than its version for a while;
`MeetingGrows` shows that then it has its bump to come, provided that no bump fails, which all three
assume: a text read under the meeting's version is the meeting's or a rename is half done, and no
version read before stays the meeting's for long. With a transcript a meeting is never skipped, so the theorem has
`LagIsSeen` without its exception.

**IntegrationDelivery_proofs.** `TypeCorrect`; `OneHolderHolds`, `OutcomesStay` and
`LossesAreCounted`, if no attempt outlives its lease ("slow" is not among the faults); `OnlyOnce`,
if besides no answer of the mail server is wrong ("unsure") and no key is freed ("shut" is not among
the gates). `HeldInv` ties a worker that runs a delivery to a row that is `running` under a live
lease. `OnceInv` adds that one row at a time may have been sent, that it and the attempt know
everyone it reached, and that the intent is in the row before the mail. `LossInv` counts for each
attempt and each row the recipients it takes for reached that were not, sparing the one whose email
is under way: no more than faults happened. Each assumption is needed: DeliveryOverrun and
DeliveryTwice show what happens without. `NothingIsForgotten` is the safety half of `DeliveryEnds`,
with attempts that outlive their lease: after one fault an unfinished delivery has a job that waits
or is about to be added under a free id, a worker that runs it or will hand its job back, a lease,
or the tick, which finds it queued without its first job. Finished jobs block their ids and a row
knows nothing of its jobs, so `CareInv` says which ids are free: no tick used one while no lease has
lapsed, one fault lets one lease lapse, and a user's retry has an id of its own; and that a job is
stalled by a fault only, so that the first stall gives it back. The property leaves out what
DeliveryStranded shows (a lost lock, a lost add by the tick or a user), and TLC refutes it for two
faults: a user's retry sets `attempts` back to 0, and the tick of the second lapse uses the id of
the first (worker.ts:100).

**IntegrationConnection_proofs.** `TypeCorrect`; `DisconnectLeavesNothing`; `FlightsAreSingle`;
`StatusTellsTheTruth`. Five invariants build on each other. `GrantInv`: what a caller bears is of
the grant of its generation, so a generation that passed cannot come back. `NumberInv`: the service
is never behind a token of the row or of a caller, and one caller at most carries the successor of
a grant's token. `CoverInv`: what the row had is dead, or good and the row's, or carried by a caller
that will store it or, where the provider can, revoke it; from it `DisconnectLeavesNothing` follows
when everybody is back, for a provider that can revoke. That a disconnected row holds no token needs
types only and holds whatever goes wrong and for every provider.
`HolderInv`: of one generation one caller is between taking and giving back the lease, and calls
with the row's own token, which is `SingleFlight`. `FlagInv` and `LiveInv`: a token the service
refused stays refused until a reconnect, and an active row's is good or its successor on its way.
The conditions (no slow caller; nothing lost) are inside the properties; `StatusTellsTheTruth`
assumes besides that the service revokes one grant at a time (`~Wide`; ConnectionWide refutes it
without).

**Capture_proofs.** Of RecordingQueue: `RecordingTypes`; `NothingIsLost`; `UploadsAreWhole`;
`GoneStaysGone`. `RecordingInv` has four parts. `RecorderFact`: a recording runs in an open tab and
has chunks once it began. `CaptureFact`: what the browser holds of a recording, as chunks or item,
and what the server holds is all of it, and the chunks go only after one of these has it. `TaskFact`
and `FlushFact` say what survives an await: what a stop, a recovery or a discard read before its
next transaction, and what an upload under way carries, is still so or was made true for good
(stored, attached, discarded). A recovery of what another tab is recording breaks all of it, so
each part is of captures no tab raced for (`raced`, inside `Kept`, `StoredWhole` and `ItemWhole`;
QueueRecovered shows such a race). `GoneStaysGone` has no such condition: whoever could write an
item again must have read one or its chunks, and holds it in a flush or an assembly; the proof
shows for each action that it leaves a capture gone (`StillGone`).
Of CaptureIngest: `TypeCorrect`; `AnsweredKeepTheirFile`; `ObjectsAreNamed`; `RetriesRecordOneJob`;
`AnsweredHaveAJob`; `FilledMeetingStays`. `ApartInv` says for each request
what it knows of the meeting, the asset and its object: that a request that made the meeting finds
nobody answered is what lets it discard the meeting, and that an asset whose object may go is of a
request told that it failed (`Hollow`). `JobInv` adds that no row is live while a
request is about to record one, and `QueueInv` that a live row is in the queue, about to be, or
of a request that gave it up (`Adrift`).
Whether requests overlapped, and whether one left such an asset or row, are conditions inside the
properties, no kind of failure is;
IngestDiscarded refutes `AnsweredIsKept`, which has none.

**MeetingPipeline_proofs.** `TypeCorrect`; `FinishedRowsAgree` and `NoJobUndoesPeople` for any
number of workers; `GeneratedOnce`, `AnnouncedAtMostOnce` and `LastOutcomeShown` for workers that
run one job at a time, the code's default. `JobInv` has types, that a busy worker's job is `active`
and no other worker's, that what BullMQ knows has a row, and that a worker about to close a job has
written how it ended. `LockInv`: what a transaction has locked is what the tasks still are, and no
other transaction has locked it; hence the merge takes for nobody's own only what is so when it
writes. `TitleInv`: a task that appeared since the read was typed in. `AnnounceInv`: announced
creations are older than the next of their title, so a task generated again under its old id is none
of them; nothing is announced before there is a summary; and an attempt that has read the tasks
knows those that were announced. `ShowInv`: as long as a processing job waits or runs the meeting may show anything;
an attempt about to close its job has completed the meeting or left it to a job that waits.
PipelineTwins refutes the first of the last three for two workers.

**TranscriptEdits_proofs.** `TypeCorrect`; `TagsAreTrue`; `EditsSeeTheText`; `TurnsAreOneSpeakers`;
`SpeakersStay`; `CleanUpsKeep`; `UndosAreWhole`. `TagsTell` extends "the current ETag shows the
current transcript" to answers on their way and says that no ETag is ahead of the version.
`CopiesAreHonest`: what a page shows, or is about to, of a segment of this run that was not
inserted again is no newer than the segment, and has its text if it has its revision; the clean-up's
copy has the segments there are. `TurnsInv` is about the clean-up's copy too, which it writes back.
That turns computed anew are one speaker's (`TurnedTurns`) is by the cardinality of the openers up
to a segment and a least counterexample; least and greatest members of finite sets come from the
well-foundedness of strict inclusion, as induction is out of reach. `RowsAreWhole`: the revisions of
an edit are reverted together, one a segment, and hold what the edit found. `UndosAreWhole` assumes
that no revision is pruned (`MaxCalls <= Keep`: revisions of a segment are of different edits, so
`Keep` are never exceeded); with `Keep` = 1 it is false (section 5, EditsLost).

Only model-checked: all liveness (`LiveSessionEnds`, `ScheduledIsDispatched`, `EditsAreIndexed`,
`DeliveryEnds`, `RecordingSettles` of both modules, `Released`, `Processed`, `CallersReturn`), since
fairness and ENABLED are out of the prover's reach. `TheEndIsAnAnswer` and `NothingIsForgotten` are
what two of them need besides fairness. Every invariant and action property of the runs is proved.
`OneImporter`, `ImportedStays`, `ProcessedStays`, `OverIsSettled`, `NothingForgotten` and the other
properties that no run lists were checked by TLC on small instances.

## 7. Not modelled

Webhook deliveries, the ASR circuit breaker, workspace membership and the Drive import are
protocols and stay planned; the hazards they hold are listed without a property. The rest of the
code is pages, formatting, requests over one row and single statements (section 1). Most of the
source lines are of that kind, which is why the map covers a small share of them.

## 8. Files

`*.tla` without a suffix are the models; `MC*.tla` give instances for TLC; `*_proofs.tla` hold the
theorems. `PROJECT.json` maps every definition to the lines it models, lists components, runs,
hazards with the line where each bites, the mutated definitions that each property catches, and
the theorems. Definitions introduced as "Mutant:" in the models are plausible bugs; no
specification uses them.
