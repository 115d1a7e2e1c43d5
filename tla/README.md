# Verification of posts-media

TLA+ specifications of the posts-media platform, model-checked with TLC and, for
the parts named below, proved with TLAPS. The reference is the code under `src/`;
`PROJECT.json` maps every definition to the lines it models.

## The system

Two NestJS applications share a PostgreSQL database, a MinIO object store and
Redis. The **API** takes posts with media files; the **worker** processes the
files. What ties them together are rows and queues, never a call:

```
client --HTTP + Idempotency-Key--> API --one transaction--> Post, Media, ProcessingDispatch, IdempotencyRequest
                                    \--copy first--------> originals bucket
worker: dispatcher --lease--> ProcessingDispatch --queue.add--> BullMQ
worker: consumer <--job-- BullMQ ; --lease--> Media ; --objects--> processed bucket ; --tx--> MediaVariant
```

### Inventory

| Component (source) | State | Operations | What is hard | What makes it correct |
| --- | --- | --- | --- | --- |
| Media processing (`apps/worker/src/processing`, `consumers`) | `Media` row: generation, status, lease token and expiry; `ProcessingAttempt`; `MediaVariant`; temporary and processed objects | claim, renew, createAttempt, publish, complete, fail | overlapping executions after a lost lease, redelivery with the same attempt number, compensation after a failed or unacknowledged commit, dead workers | a publication is complete or absent; completed is final; published objects exist; every generation ends |
| Transactional outbox (`apps/worker/src/outbox`) | `ProcessingDispatch` row: status, lease, next attempt; `running` flag | claimBatch, publish, markPublished, markRetryWait, markDead, cleanup | a run that aborts while its publications go on, slow batches, lost answers, crashes | every dispatch becomes exactly one job or is buried; no row is reopened; a live lease is respected |
| Idempotency records (`libs/database/src/idempotency`) | `IdempotencyRequest`: state, fingerprint, lease, outcome | acquireOrReplay, finalize, markRetryableFailure, executeIdempotent | two requests that reclaim one record, handlers that outlive the lease | at most one effect per key; an answer given stays true |
| Post uploads (`create-post.service.ts`, `add-post-media.service.ts`) | posts, media, originals, locals of a request | execute: acquire, check, validate, promote, transaction, compensate, release | object store and database cannot commit together | no committed media without its original; rows and key commit together |
| Posts service (`posts.service.ts`, `posts.repository.ts`) | `Post.deletedAt` | softDelete, restore, update, list | a deletion beside an upload | a deleted post gains nothing |
| Media service (`media.service.ts`) | generation and status of a FAILED media, new dispatch | retry | the retry commits before its key is finalized | each retry opens one generation; an answer names what was done |
| Queues (`libs/queues`, BullMQ) | jobs by deterministic id, attempts, locks | add, deliver, retry, stall | duplicate delivery, jobs forgotten after 7 days | a known id is not added twice |
| Object storage (`libs/storage`) | three buckets | put, copy, stat, removeMany | partial removal | keys of different attempts differ |
| Graceful shutdown (`graceful-shutdown.service.ts`, `onModuleDestroy`) | tracked children, active jobs, barrier | track, shutdown | a job that spawns a child after the list was taken | every child is killed that shutdown can see; Prisma disconnects after the jobs or the deadline |
| Heartbeat and health (`worker-heartbeat.service.ts`, `worker-health.ts`) | `WorkerInstance`, probes in flight | beat, destroy | probes that outlive their timeout, a beat beside the last write | one call per dependency; STOPPED is the last status |
| Child processes (`ffmpeg.service.ts`, `ffprobe.service.ts`) | a child, two timers | run | timeout, exit and error in any order | settles once; the child is gone |
| Media validation (`libs/media/src/validation`) | sizes, verdicts of one request | preflight, inspect, checksum | sizes in any order, evidence that disagrees, limits, hung probes | accepted is genuine; a refusal is deserved; every file settles |
| Media processors (`libs/media-processing`) | outputs of one job | plan, make renditions and thumbnails | they inspect a file anew with other tools and limits; rounding | what is accepted can be processed; what is published is complete |
| Domain models, list query, backoff | none | pure functions | boundaries | |
| HTTP layer, presenters, upload workspaces, configuration, dashboard, deployment | none that the others rely on | parsing, presentation, I/O | | |

`PROJECT.json` lists the same components with their status, and under `hazards`
what in this code is hard to test, each at its line with the properties that
guard it.

## The plan

In this order, the behaviour the system stands on first; all of it is done:

1. `MediaProcessing`, its runs and `MediaProcessing_proofs`.
2. `DispatchDelivery` (abstract), `Outbox` (implements it), `Outbox_proofs`.
3. `Idempotency`, `PostUploads` (extends it), `PostUploads_proofs`.
4. `MediaRetry` (extends `PostUploads`): `executeIdempotent` and
   `MediaService.retry` beside the uploads, and `MediaRetry_proofs`.
5. `ChildProcess`, `WorkerShutdown` (extends it), `Heartbeat`, their composition
   `WorkerLifecycle`, and `WorkerLifecycle_proofs`.
6. `MediaFormats`, `MediaValidation`, and their composition with the processors,
   `MediaPipeline`; then `FiniteData_proofs`, `MediaContents_proofs` and
   `MediaPipeline_proofs`.

What would come next: a composition of `Outbox` and `MediaProcessing`, from the
dispatch row to COMPLETED or FAILED, which today share only `ManualRetry` and
`QueueAdd`.

## Modules

### MediaProcessing

One action per await of `ProcessorOrchestratorService.execute` and of
`VariantPublicationService.publish`, so that executions interleave where the code
yields. `pc` is the place in the code, `att` the media, generation and attempt
number of a job, `tempCount` and `finalCount` the lengths of publish's two lists.
An execution is its own lease token (a fresh UUID in the code); `Deliver` waits
until no row holds it (`FreshToken`). A clock is whether a lease is `live` or
`expired`; `Renew` is the interval timer, which runs exactly between the start of
the `try` and its `finally` (`Renewing`).

`job` is BullMQ, modelled as the consumers use it: a job id known is not added
again; a thrown error counts an attempt; an active job whose lock is lost is
delivered again with the same `attemptsMade`, `MaxStalls` times.

Faults are a constant, so that a run names what it assumes: `handler` (download,
tools and storage), `cleanup` (partial removal), `database` (a statement fails or
a transaction rolls back), `lostAck` (publish's transaction commits and its answer
is lost), `crash`, `stall` (a live worker loses its lock or its lease).

`ManualRetry` is the transaction of `MediaService.retry`; the job of the next
generation may then be added (`QueueAdd`), which abstracts the outbox.

### DispatchDelivery and Outbox

`DispatchDelivery` is the promise of the outbox: rows are created, enqueued,
closed, buried, purged, in that order and never reopened. `Outbox` is
`OutboxClaimRepository`, `DispatchPublicationService`, `OutboxDispatcherService`
and `OutboxCleanupService`: `ClaimBatch` is the CTE with its order and limit,
`NextChunk` the slices of `publishConcurrency`, `Record` the one guarded
`updateMany` behind the three marks, `Abort` a rejected `Promise.all`: the chunks
to come are dropped, `running` is cleared, and the rest of the chunk goes on
beside the next run. A row is identified with its job id, which is unique. The
refinement `Delivery` maps PENDING, PUBLISHING and RETRY_WAIT to "open" and the
jobs to "enqueued".

### Idempotency and PostUploads

`Idempotency` has the record of a key and the steps of `acquireOrReplay`: the
insert, the read after a unique violation, the conditional update; and what
`finalize` and `markRetryableFailure` write. `PostUploads` extends it with the two
`execute` methods, which have the same shape (an add checks its post first and
needs one valid file, a create needs all), and with `softDelete` and `restore`. A
fingerprint is the input itself; two handlers are two concurrent requests, and
each starts over with any key and input when it is through. Expired records are
never removed, as nothing in the program calls `IdempotencyCleanupService`.
Staging objects and sort orders are left out.

### MediaRetry

Extends `PostUploads` with the handlers of `MediaService.retry`: the transaction is
its read and its guarded `updateMany`, two steps, because another transaction may
commit between them; `executeIdempotent` then finalizes the key in a statement of
its own, and gives it back whatever fails. `opened` is a history variable: how often
retries have opened a generation of a media. What a worker makes of a generation is
one step (`WorkerSettles`), since `MediaProcessing` has it in full.

### ChildProcess, WorkerShutdown, Heartbeat, WorkerLifecycle

`ChildProcess` is what `FfmpegService.run` and `FfprobeService.probe` have in common:
the process (`os`, `signal`, `code`), the timeout, the SIGKILL armed with the SIGTERM,
the promise, and the set in which the children are tracked. 'exit' and 'close' are two
steps, so that a timer, a signal or more output may come between them. The output
limit is ffprobe's only; a child of ffmpeg simply never exceeds it.

`WorkerShutdown` has jobs that run such children one after the other, and
`onModuleDestroy` of the consumers with `GracefulShutdownService.shutdown` in it, one
action per await: `pausing`, `stopping`, `draining`, `closing`, `closed`. The five
seconds of the grace period and of the drain may be over in any state. `Disconnect` is
`PrismaService.onModuleDestroy` behind its barrier; `End` is the end of the process,
which leaves children to themselves. `late` marks the children that were spawned after
shutdown had looked at its set for the last time.

`Heartbeat` is `WorkerHeartbeatService`: the probes on record (`redisProbe`,
`storageProbe`) apart from the calls really in flight, so that single flight is
something that may fail; a status that is assessed now and written later; the wait for
the beat under way before STOPPED. `WorkerLifecycle` runs the consumers and the
heartbeat in one process whose hooks start together.

### MediaFormats, MediaValidation, MediaPipeline

A file is what the code is told about it: its extension, its declared type, what its
first 4096 bytes say (magic number, brands, DocType, whether the box or element is
complete), what ffprobe and sharp answer. `MediaFormats` is what is concluded from
that, as operators with the names of the code. `MediaValidation` is
`validateFiles`: sizes that become known in any order, then one file after the other,
one action per await, with reads that fail and probes that hang. A `CASE` or `FirstOf`
keeps the order of the throws, because the code that a client is told depends on it.
`UploadedFile` is the type of a file, built from those of its header, its ffprobe
document and its metadata; that requests are sequences of such files
(`RequestsAssumption`) is all that is assumed of the contents.

`MediaPipeline` follows the files that are stored into the processors. `command` is
what the request asks for: a new post is stored only if no file is refused
(`NoneRefused`), an addition to a post without the files that are (`Stored`); how the
originals and the rows get there is `PostUploads`. The processors read the stored
original again, with a pixel limit of their own (`maxInputPixels`);
`planVideoRenditions` with `even` and the quotient of doubles, the
`scale` filter of ffmpeg, sharp's `inside`, libmp3lame's rates and the `-ss` of the
thumbnail decide what is made and where a tool refuses. What the properties compare
with (`NamedBy`, `Genuine`, `Ladder`, ...) is written independently of the code, from
what a file is.

## Runs

| Run | Instance | What it shows |
| --- | --- | --- |
| `mp_faults` | 1 media, 2 executions, 2 attempts, 2 generations, 2 artifacts, 1 stall; `database`, `lostAck`, `crash`, `stall` | rows consistent, publication complete, completed is final |
| `mp_settles` | 1 artifact; `handler`, `cleanup`; fair | every generation ends; FAILED is left by a retry only; published objects exist |
| `mp_stall` | 1 attempt; `stall` | **violated**: published objects are removed by a stale execution |
| `mp_stuck` | `crash`, fair | **violated**: a media stays PROCESSING |
| `outbox_faults` | 3 rows (one invalid), 2 workers, 2 batches, chunks of 2, 1 crash, every fault | implements `DispatchDelivery`; a live lease is respected |
| `outbox_settles` | 2 rows, 1 worker, 3 batches of 1 row; passing faults; fair | every dispatch settles |
| `uploads_failures` | 2 handlers, 2 keys, 2 posts, 2 media; `storage`, `database`, `crash` | one effect per key, recorded for good; originals exist |
| `uploads_slow` | 1 key; `slow` | **violated**: two effects for one key |
| `uploads_deleted` | no fault | **violated**: a deleted post gains media |
| `media_retry` | 2 handlers, 2 keys, 1 post, 1 media, 3 generations; every fault | each retry opens its own generation; what a replayed answer names was done |
| `worker_lifecycle` | 2 jobs that come again, 1 child each, 2 dependencies; fair | children are watched and killed, probes single-flight, STOPPED final, the database outlives the jobs, the shutdown ends |
| `media_pipeline` | all contents under all names, containers whose evidence disagrees, numbers at their limits, one to three files; `io`, `probe`; fair | accepted is genuine and processable, a refusal deserved, a publication complete, every file settles, for a new post and for an addition |

**Bounds.** The conflicts are between two executions, batches, handlers or jobs; a
third meets the same rows in the same states. Two attempts and two generations have a
first and a last one and a manual retry between; two artifacts make a publication
that can be half done. Three rows with chunks of two make a batch that is aborted
with a chunk to come. Three generations let two retries succeed and a third be
refused. One child per job suffices for the shutdown, as jobs may begin again and a
job with children to come is one that has not yet run its child. The limits of
`media_pipeline` are small (two files, five units) where they are sums and the real
ones where they are edges, frames and rates; its limit of 50,000,000 pixels is above the
processor's 40,000,000, so that a picture between the two occurs. Bounds that are not in the code:
`MaxGeneration`, `MaxCrashes`, `MaxChildren`, the sizes of the sets. Runs with symmetry
have no liveness property. Deadlock is not checked: bounded ids and retries let the
instances stop, and so do a request that is answered and a worker that is gone.

**Fairness.** `MediaProcessing`: an execution that runs takes its next step, BullMQ
serves what waits, the stalled check is periodic, the dispatcher adds what is
committed and time passes; delivery of a job is strongly fair because BullMQ is a
queue. No fault, no renewal and no retry is fair. `Outbox`: the poll timer starts
runs (`setInterval`), a run goes on, time passes; `Add`, and the marks by a batch
that holds the row, are strongly fair, which says that Redis and the database do
not fail for ever. Three tokens for one worker mean that a fresh one is always to
be had, as in the code. `WorkerLifecycle`: timers fire, a process that was sent
SIGKILL exits, its pipes close, statements return; a child need not end by itself nor
heed SIGTERM, a job need not end, a dependency need not answer. `PipelineSpec`: every
read, decode and encode comes to an end; a probe need not, it is timed.

### Where the code and its documents disagree

- `mp_stall`: redelivery keeps the attempt number, the upsert returns the same
  attempt row, so both executions write the same keys, and the stale one's
  compensation removes what the other published (README.md:68).
- `mp_stuck`: a redelivered job that meets the dead worker's live lease is
  completed; "worker lease expires: recoverable" (plan, line 2022) has nobody left
  to recover it.
- `uploads_slow`: `finalize` selects the row by the key, not by the lease token.
- `uploads_deleted`: `deletedAt` is checked before the files are validated and
  promoted, and not again under the row lock.

Met while modelling, and described here rather than in a run:

- The comment on `IdempotencyService` (`idempotency.service.ts:73-82`) says that the
  retry finalizes its key inside its transaction. It does so after it, through
  `executeIdempotent`. After a crash or an error between the two, a repeated request
  is answered with MEDIA_RETRY_NOT_ALLOWED, or, if the worker has failed the media
  again, opens another generation. `EachRetryOpensItsGeneration` counts both.
- The plan (line 1504) has children terminated on shutdown. One that a job spawns
  after `shutdown` has looked at its set for the last time is not, and outlives the
  worker when the drain meets its deadline: the exception of
  `ShutdownReachesChildren`. Grace period and drain may take ten seconds together.
- The plan bounds a rendition in both edges ("Portrait 360p: 360 x 640", lines
  259-268), the planner (`video-rendition-planner.ts:29`) only in the short one: a
  video longer than 16:9 exceeds the long bound, and 571x1142 is published as 360x720
  under the label 360p. `PublishedIsComplete` states the plan's bound with this
  exception, which TLC shows to be needed when it is taken out.
- "Use even dimensions for H.264" (plan, line 270) and "Round dimensions to even
  values" (line 1600): the planner does, but `force_original_aspect_ratio=decrease`
  then shrinks one edge to the ratio, so that 1918x1080 becomes 638x359 for 360p, which
  libx264 refuses with yuv420p. A quotient of doubles may also cost a step two pixels
  (358 instead of 360).
- "Never upscale images or videos" (plan, line 23): `even` has a least value of 2, so
  that an edge of one pixel becomes two. `PublishedIsComplete` says that no other grows.
- The thumbnail has no "safe fallback" (line 1614): a video without a frame after a
  tenth of its duration fails, and so does the whole job. Nor is it bounded by 1280x720.
- A rate that MP3 does not have (37 kHz) is passed to libmp3lame, which refuses it.
- `maxImagePixels` is configurable without a maximum (`environment.schema.ts:216`), the
  processor's 40,000,000 are not: with a higher limit, as in the run, a picture between
  the two is accepted and its job fails for good. With the shipped 40,000,000 there is
  no such picture.

The sound files that the processors cannot handle are enumerated by
`BeyondTheProcessors`; `AcceptedIsProcessable` says that there are no others.
README.md:140 calls the heartbeat "bounded, single-flight, and shutdown-safe", which is
what `SingleFlight`, `StoppedForGood` and `ShutdownCompletes` state, and they hold.

`FailedLeftOnlyByRetry` holds without crashes only, `OriginalsExist` and
`OneEffectPerKey` without lost commit answers only; the comments and the hazards
say why. In `MediaProcessing`, `Crash` and `lostAck` are part of `mp_faults`.

## Proofs

`MediaProcessing_proofs`, for all values of the constants under the assumptions
`MediaAssumption`, `BoundsAssumption` and `FaultsAssumption`, and every fault:

- `IInv` is inductive: `TypeOK`, `RowConsistent`, `PublicationComplete`, and three
  facts they need. `JobInv`: a job that can be delivered has attempts left (or the
  attempt number would leave its type). `ExecutionInv`: an execution under way has
  its attempt. `TokenInv`: a token on a row is that of an execution of the row's
  generation that has not published; hence `complete` after a publication never
  finds its token (`CompleteWritesNothing`) and cannot complete what publish did
  not. `InductiveInvariant`, `TypeCorrect`, `RowsConsistent` and
  `PublicationIsComplete` follow; `CompletedForever` is an action property from the
  same invariant.
- `PublishedObjectsStay` assumes `SoleWorker` (no `stall`, no `lostAck`), the
  assumption `mp_stall` shows to be needed. Its invariant adds `OwnerInv` (a
  delivered execution owns its job, so attempts of live executions differ),
  `CopiedInv` (the first `finalCount` objects of a publishing execution are in the
  bucket) and `UnpublishedInv` (an execution that compensates does so in a
  generation that is not completed).
- `FailedMediaWaitsForRetry` is `FailedLeftOnlyByRetry`: no job under way and no late
  delivery moves a FAILED media. It assumes `NoLostWorker` (no `crash`, no `stall`),
  since a job whose worker is lost is delivered again, beside what the first delivery
  has written. `FInv` adds to `IInv` and `OwnerInv` that an active job has the owner of
  its lock (`LockedInv`), that an execution runs the attempt after those its job counts
  (`AttemptNoInv`), and that the job of a FAILED media is given up (`FailedInv`): dead
  or, in its last attempt, on its way to the throw.

`Outbox_proofs`, under `DispatchAssumption`, `BatchAssumption`, `BoundsAssumption`,
`FaultsAssumption`:

- `IInv` = `TypeOK`, `StepsInv` (what a publication knows of its dispatch) and
  `RowsInv` (what a settled row says of the queue). Each action is first reduced to
  its effect on rows, on publications and on jobs, and the invariant, the owner's
  property and the refinement are proved from the effects.
- `OwnersSettle` is `OnlyTheOwnerSettles`; `OutboxKeepsPromise` is the refinement
  `Spec => Delivery!Spec`: initial states map to initial states and every step to a
  step of `DispatchDelivery` or a stutter.

`PostUploads_proofs`, for any requests, keys, posts, media and inputs:

- `SafeInv` is inductive under every fault: the types; `Flow` (what a handler knows at
  each await: an add's post was there and no post goes away); `Disjoint` (no media id is
  drawn twice); `ReplayIsBacked`. `TypeCorrect` and `ReplaysAreBacked` follow.
- `QuickInv` is inductive together with `SafeInv` when handlers end within their leases
  and no commit loses its answer (`Quick`, what `uploads_slow` shows to be needed).
  `Held`: who holds a key finds its record IN_PROGRESS, with its own input, and nobody
  else holds it. `Recorded`: `OneEffectPerKey`, `EffectIsRecorded`, and for every
  answer the record it came from. `Stored`: `OriginalsExist`, and what a request would
  remove is committed by nobody. `OneEffect`, `EffectsAreRecorded`, `AnswersAreRecorded`
  and `OriginalsAreKept` follow. Each action has two lemmas, one per invariant.

`MediaRetry_proofs`, for any requests, keys, media and `MaxGeneration`, under every fault:

- `RetryInv` is inductive. It takes `SafeInv` from `PostUploads_proofs`, and adds
  `RetryFlow` (what a retry has read is older than the current generation once it has
  opened the next), `FailedIsNotLast` (a FAILED media is within the bound) and
  `OwnGeneration`: what a retry is about to be answered is named by no other retry and
  by no key. The last is what `RetryIsBacked` needs, since a retry finalizes its key
  only after its transaction, when others may have read, opened and answered since.
- The steps of the uploads are lemmas of their own (`UploadsLeave`): they finalize no
  key with a generation and move no retry. A retry's step either opens nothing and
  finalizes nothing (`QuietMove`), opens (`OpeningKeeps`), or finalizes
  (`FinalizingKeeps`), whether the answer of its statement arrives or not.
- `RetryTypesAreKept`, `EachGenerationIsOpenedOnce`, `RetriesAreBacked` and
  `ReplaysAreBackedBesideRetries` follow.

`WorkerLifecycle_proofs`, for any jobs, dependencies and `MaxChildren`:

- `ConsumersInv` adds to the properties `GoneIsClean` (what an exited process leaves),
  `Tracked` (a running child is tracked until shutdown has emptied the set) and `Drains`
  (past the drain, jobs are left only if the deadline was met). `HeartInv` adds `Quiet`
  (no beat is under way once STOPPED is written). The two parts of the state change
  independently, except for the stage that ends both, so that each has its own lemmas.
- All six safety properties and `TypeOK` are theorems.

`FiniteData_proofs` has what the validation computes with: least and greatest elements
of finite sets, and sums of a function over a set. The induction it needs is by a
minimal counterexample, from the well-founded order of the subsets of a finite set:
the library's induction theorems take an operator as a parameter and cannot be used.

`MediaContents_proofs` is about one file, without any state:

- `ChecksDecideGenuineness`: for every file that can be uploaded, the checks of the
  validator pass together if and only if the name is honest and the contents are
  `Genuine`. One side is the code, with its order of throws, its containers that name
  a variant or only share one, its pixel and duration limits; the other is what a
  sound file is. Each group of checks has a lemma (`NameChecks`, `HeaderChecks`,
  `ImageChecks`, `DocumentChecks`, `SafetyChecks`). From it, `ProcessorsAccept`: what
  a processor looks for in a file that passed, it finds.
- The arithmetic of the renditions, for every size: the quotient of doubles in
  `EvenScaled` loses at most two pixels; the box of a step is within two pixels of it
  (`LadderBox`, `SourceBox`); and `Frame`, the fit of a picture into its box, is not
  larger than the picture (or two pixels) and within a pixel of its ratio
  (`BoxedFrame`). Products of variables are beyond the solver, so that each
  inequality is brought to one with a common factor that is then cancelled.

`MediaPipeline_proofs`, for requests of any number and any files, under
`LimitsAssumption` (every limit is at least 1, as the schema says), `RequestsAssumption`
and `FaultsAssumption`, and every fault:

- `PInv` is inductive. `TypeInv`; `PreflightInv` (no turn begins while a size is
  pending, and a size that could not be read has struck its file) and `TurnInv` (a file
  whose turn has not ended has the verdict of the preflight), which make the order of
  the sizes irrelevant; `StepInv`: which checks the file has passed at each await, so
  that the last leaves `Passed`; `VerdictInv`: a verdict is that of the preflight and
  the checks unless a fault has struck; `JobInv`: a job exists only for a file that
  its command stores, each output is either still planned or made, once, and what is
  made is what the planner computed. Without `VerdictInv` a job could meet a file that
  the validator has never seen, without `Progress` a variant could be made twice.
- `PipelineTypes`, `AcceptedAreGenuine`, `RefusalsAreDeserved`, `AcceptedFit`,
  `AcceptedAreProcessable` and `PublishedAreComplete` follow, the first four from the
  checks and the sums, the last from the arithmetic.

Only model-checked: the liveness properties (`GenerationSettles`,
`EveryDispatchSettles`, `ShutdownCompletes`, `EveryChildSettles`, `EveryFileSettles`).
Liveness under fairness is out of reach of the proof system used here, and so is
ENABLED. Every invariant and every action property that a passing run checks is a
theorem.

## Not modelled

The bytes of a file, codecs, bit rates and filters beyond the sizes they return; HTTP
parsing and presentation; configuration parsing; the dashboard; deployment; list
queries and the aggregate status; the backoff's length. BullMQ's removal of finished
jobs after 7 days or 1000 jobs, progress values, error texts and time stamps. A worker
killed in the middle of its shutdown is `Crash` of `MediaProcessing` and `Outbox`, not
of `WorkerLifecycle`. The dispatcher's `onModuleDestroy` clears its timer only, with no
barrier in front of Prisma: a run under way then ends with a database error, the fault
that `Outbox` has anyway. `cleanupStale` and `removeExpired` are called by nothing.
