# Formal model of cutout-ml

TLA+ modules that model the parts of cutout-ml whose correctness depends on
ordering, failure or concurrency; TLC configurations that check them on small
instances; and TLAPS proofs of the properties that matter most for every value
of the constants.

Run a configuration with `tlc -config <cfg> <module>` and the proofs with
`tlapm <proofs>.tla`:

| Configuration | Module | Proofs |
|---|---|---|
| `JobConcurrency`, `JobRedelivery`, `JobLiveness`, `JobCancelRunning` | `MCJobLifecycle` | `JobLifecycleProofs` |
| `AssetConcurrent` | `MCAssetUpload` | `AssetUploadProofs` |
| `VideoPipeline` | `MCVideoPipeline` | `VideoPipelineProofs` |
| `ObjectStorage` | `MCObjectStorage` | `ObjectStorageProofs` |
| `Submission` | `MCSubmission` | `ClientProofs` |
| `ModelStore` | `MCModelStore` | `ModelStoreProofs` |
| `MediaJobs` | `MCMediaJobs` | `MediaJobsProofs` |
| `Benchmarks` | `MCBenchmarks` | `BenchmarksProofs` |
| `Studio` | `MCStudio` | `ClientProofs` |

Next to a definition that is easy to get wrong stands a variant of it with the
mistake (`Unconstrained` beside `Unused`, `KeepLast` beside `Effective`, ...).
The specifications do not use these variants; putting one in the place of the
right definition makes the properties that guard it fail, and `PROJECT.json`
says which.

Sections: 1 inventory, 2 plan, 3 job lifecycle, 4 asset, 5 video pipeline,
6 what a worker does with a job, 7 storage, 8 submission and rate limit,
9 weights and models, 10 benchmarks, 11 the studio page, 12 what is only
model-checked, 13 what the code does that its documentation does not say,
14 what is not modelled.

## 1. Inventory

cutout-ml removes the background of images and videos. A web client uploads an
asset, asks for it to be processed, and polls the job; the API writes rows in
Postgres and messages in a Redis broker; Celery workers execute the jobs with a
segmentation model and write the outputs to an object store.

| Component | State it keeps | Operations | Talks to | What is hard | Module |
|---|---|---|---|---|---|
| **Job lifecycle** (`services/api/app/routers/assets.py` process and dispatch, `routers/jobs.py`, `services/inference/app/{tasks,runner,celery_app}.py`) | `inference_jobs` and `inference_runs` rows, the output objects, messages, revoked task ids | create and dispatch, deliver, execute, record success or failure, retry, cancel, redeliver, `requeue_stuck` | Postgres, broker, object store | at-least-once delivery, stale reads across commits, crashes, a sweep racing with live messages | `JobLifecycle`, `RunLedger` |
| **Asset upload and deletion** (`routers/assets.py`, `uploads.py`) | `assets` rows, uploaded objects | reserve, PUT content, multipart upload, complete a presigned upload, delete, download | Postgres, object store, job lifecycle (reads the bytes) | a status checked before an `await` and used after it, objects replaced under a ready row | `AssetUpload`, `AssetSerial`, `AssetContract` |
| **Idempotent submission** (`process_asset`) | the `(owner_id, idempotency_key)` unique key | look up, insert, answer | Postgres | two identical requests at once | `Submission` |
| **Rate limiter** (`ratelimit.py`, `deps.py`) | token buckets in Redis or in each API process | check | Redis | several clocks, fallback to memory, expiry of an idle bucket | `RateLimiter` |
| **Object storage** (`src/cutoutml/storage`) | files and temporary files, or S3 objects | put, put_stream, get, open, delete, list | file system, S3 | atomicity of a write against readers and crashes, repeated requests | `ObjectStorage`, `AtomicStore` |
| **Video pipeline** (`pipelines/video.py`, `ffmpeg.py`) | decoder and encoder processes, the pipes, a batch, the smoother's buffer | decode, batch, infer, smooth, encode, close | ffmpeg | blocking pipes, a child that dies | `VideoPipeline` |
| **Media jobs** (`runner.py`, `pipelines/{image,video,ffmpeg}.py`) | the attempt in progress, its temporary directory, cached alpha verdicts | probe, validate, check alpha, render in shrinking batches, encode, archive, store, describe | ffmpeg, model, object store | tables that must agree, the OOM loop inside the retry loop, a verdict that outlives its job | `MediaJobs` |
| **Failure classification** (`errors.py`) | none | classify | job lifecycle | order of the rules | `ErrorPolicy` |
| **Queues and devices** (`core/queues.py`, `core/devices.py`) | none | route, resolve a device, resolve a precision | API and worker machines | one decision made twice on two machines | `Placement` |
| **Weights and models** (`models/registry.py`, `spec.py`, `download_weights.py`, `u2net/from_onnx.py`, `export_onnx.py`, `training/train.py`, the cache in `runner.py`, `GET /v1/models`) | weight files, partial downloads, the LRU of loaded models, memoised digests | list, resolve, download, convert, export, train, load, evict, measure | file system, HTTP | processes that meet at the same files | `ModelStore` |
| **Benchmarks** (`benchmarks/`) | the rows of a suite, torch's thread count, the archive of reports | run the cases, save, render | models | state of the process that outlives a case, tables over mixed rows | `Benchmarks` |
| **Web client** (`apps/web/src/components/Studio.tsx`, `lib/hooks.ts`) | the batch, the polled job, blob URLs | drop, submit, re-run, poll, fetch, clear | API | late answers, copies of a batch | `Studio` |
| **Authentication, API shell, configuration** | users, counters | login, health, catalogue | Postgres | stateless | |
| **Numerics**: imaging, refinement, metrics, networks, datasets | arrays | | | outside what TLC can compute | |

What makes each correct:

- *Job lifecycle*: attempts are numbered without gaps, each is executed by one
  worker and closed once; what is served was stored; a cancelled or finished
  job stays so; a job a worker or the broker loses ends in some way; the work a
  job may cost is bounded.
- *Upload*: the bytes of a ready asset are the ones its row describes and never
  change; a deleted asset stays deleted and its bytes go.
- *Submission*: one job per key, and every client is told about that job.
- *Rate limiter*: never more than `burst + rate * time` requests pass, and a
  caller that waits as told, to the rounding of the header, is served.
- *Storage*: a reader sees the whole of one put, or nothing.
- *Video pipeline*: every decoded frame is encoded once and in order, no child
  outlives the job, and neither side waits for ever.
- *Media jobs*: what is stored is what was asked for and what its description
  says; a wrong request costs no rendering and no retries, a failure that may pass is
  not given up early; a job ends.
- *Weights*: a file is whole and is what its digest, its provenance or its
  training record says; the cache holds exactly what the device holds.
- *Benchmarks*: a row was measured as it says, and like is compared with like.
- *Web client*: an item shows its own latest job, and the pictures of that job.

The hazards, with the line where each bites, are in `PROJECT.json`.

## 2. Plan

Each module takes its parameters as CONSTANTS with named assumptions and has no
RECURSIVE operator, so it can be proved about.

| Step | State |
|---|---|
| `JobLifecycle` implementing `RunLedger`, with proofs | done |
| `AssetUpload` and `AssetContract`, with proofs | done |
| `VideoPipeline`, with proofs | done |
| `Submission` over `RateLimiter`, with proofs | done |
| `ObjectStorage` implementing `AtomicStore`, with proofs | done |
| `ModelStore`: weights, training, model cache, with proofs | done |
| `MediaJobs` over `ErrorPolicy` and `Placement`, with proofs | done |
| `Benchmarks`, with proofs | done |
| `Studio`, the web client against a server whose jobs move, with proofs | done |
| The sweep over many jobs, with its limit of the 100 oldest rows | open |
| The client's session in localStorage, shared by tabs | open |
| Every safety property of a run as a theorem | done |

How the modules fit together: `JobLifecycle` has a job's row and messages and
treats an attempt as outputs followed by an outcome; `MediaJobs` has one
worker's attempts and treats their rows as given; `VideoPipeline` has one pass
over the frames of one such attempt. `Submission` ends where `JobLifecycle`
begins, at the commit of the job row, and `AssetUpload` gives both the asset
they start from. `Studio` sees a job as its status and outputs.
`ObjectStorage` justifies that the others treat a put as one step.

### All runs

| Run | Bounds | States | Question |
|---|---|---|---|
| `job_concurrency` | 2 workers, 1 output, 1 fault, 1 duplicate, 1 cancel, 1 sweep, no retries | 4,270,769 | every pair of actors interleaved: attempts, dispatch failure, settled cancel, final success |
| `job_redelivery` | 2 workers, 2 outputs, batch 4, every failure, 2 retries, 1 fault | 1,056,451 | refinement of the ledger, served results, bounded work, no stranded job, no growing batch |
| `job_liveness` | 2 workers, 1 fault, 1 sweep, no retries, fairness | 40,465 | lost jobs finish |
| `job_cancel_running` | as small as the counterexample allows | | the finding of section 3 |
| `asset_concurrent` | 3 requests, presigned URLs, 2 faults, contents `p1`, `p2` (PNG), `j1` (JPEG), `bad` | 268,882 | what holds under any interleaving, and the contract of clients that wait |
| `video_pipeline` | up to 5 frames, batch 4, window 3, pipes of 1, a file buffer of 0 or 1, 2 messages per ffmpeg, 3 faults, both modes | 412,972 | the video delivered, memory, no orphans, what may hang |
| `media_jobs` | 6 deployments, 13 sources, 11 requests, 2 jobs in one process, 2 retries, 2 mishaps, fairness | 171,727 | what a job stores and says, retries, placement, termination |
| `object_storage` | 3 callers, 2 keys, 2 payloads of 2 chunks, limits 1 and 2, pages of 1, both backends, 3 calls, 1 fault | 783,155 | atomicity, lists |
| `submission` | 1 process, 3 requests, 2 assets, 1 client key, instants 0, 1.5 and 5 s, clocks up to 2 s behind | 2,089,464 | quota, time, one job per key |
| `models` | 5 models, 2 downloads, 1 conversion, 1 export, 2 epochs, a cache of 1, 6 file changes, 4 pieces of work, 2 at once | 1,869,885 | files, training records, what clients are told, cache, benchmark rows |
| `benchmarks` | 2 selections of cases, 2 sets of switches, `--threads` 0 and 1, sweep of 2 counts, 2 suites, 1 mishap | 628,991 | what reports claim |
| `studio` | 2 files, 2 output kinds, 2 jobs, 3 clicks, 1 error, fairness | 461,114 | the batch, the pictures, what ends |

Deadlock is not checked where a bounded system comes to rest: every request is
made once, every message consumed, every budget used. Budgets are guards of the
models, not of the code. Values that are only compared for equality are
interchangeable, so the safety runs use symmetry over them; runs with liveness
do not.

## 3. The job lifecycle

### JobLifecycle

One job with everything that touches it. Its variables are the columns of the
job's row that decide anything (`status`, `attempts`, `result`,
`celery_task_id`, `batch_size`, and `stale` for "the newest of `started_at`,
`queued_at`, `created_at` is before the cutoff"), the `runs` rows by attempt
number, the output keys that are `stored`, the broker's messages (`queue`,
`sent`, `revoked`), and the program counters and local variables of the
processes: `pc`, `held`, `seen`, `mine`, `trial`, `put`, `failure` for each worker, `api`
for the request that dispatches, `canceller`, and `sweeper`.

- **One action per commit.** The sessions are READ COMMITTED without a row
  version, so a handler may decide on what it read several commits ago. `seen`,
  `canceller` and `sweeper` hold those stale reads. SQLAlchemy writes only the
  attributes that changed since they were loaded: `Start` does not write the
  status of a job it loaded as running, `SweepCommit` does not write that of a
  job it loaded as queued. `_record_failure` and `mark_permanently_failed` roll
  back first, which reloads the row; `_record_success` does not.
- **API**: `InsertJob`, `MarkQueued`, `Publish` or `PublishFails` (the broker may
  have the message all the same), `StoreTaskId` or `ReturnToPending`, and
  `ApiDies` at any point between.
- **Worker**: `Receive` (delivery and the batch override's own transaction),
  `Skip` or `Load`, `Start` or `StartConflicts` (the unique constraint on the run
  row), the loop of `_run_video` over batch sizes (`EnterLoop`, `ShrinkBatch`,
  `LeaveLoop`, with the size at hand in `trial`), `PutOutput` for each output,
  `RecordSuccess` or `RecordFailure`, then what `_run_job` does with the
  exception: `MarkFailed`, `RaisePermanent` or `Retry`, and `Ack`.
- **Faults**: `CommitFails`, `TimeLimitOnReturn`, `RetryLost`, `WorkerLost`,
  `HardLimit`, `LoseMessage`, `RestoreCopy`, `SweepFails`.
- **Owner**: `CancelLoad`, `CancelCommit`, `Revoke`. **Sweep**: `SweepScan`,
  `SweepPublish`, `SweepCommit`, and `CutoffPasses` for time.

Abstractions. A manifest is the number of the attempt that produced it. An
output is a key; its bytes are not distinguished, as replays overwrite the same
keys. Progress commits write no column that decides anything and are left out.
There are two loops that halve: `_run_video`'s, in process, starts at the row's
batch size and leaves with an OOM only once a batch of one has failed too
(`OomEscapes`); then `_run_job` retries the message with half the *row's* batch
(`RetryMessage`), a size that the attempt it follows has already tried. An image
or an OOM outside the loop goes to the second one directly. The four kinds of failure
are the outcomes `classify` leads to: retryable, out of memory, not retryable,
and the soft time limit, which `_run_job` treats apart. An `IntegrityError` is
not retryable (its class name is in none of `classify`'s lists; a message text
that happened to contain a transient pattern, such as a UUID with `503` in it,
would make it so and is not modelled).

`CutoffPasses` relies on two numbers of the code: `HARD_TIME_LIMIT` is 3600 s
and so is `older_than_seconds`, so a sweep never finds the `started_at` of a live
execution stale.

### RunLedger

What the run history promises whoever polls a job: attempts open in order 1, 2,
3, ..., each closes at most once, and the manifest served is always that of an
attempt that succeeded. `JobLifecycle` instantiates it with its own `attempts`,
`runs` and `result`; `LedgerKept` is the refinement.

### Runs

`job_concurrency` checks `AttemptsKept` (numbered without gaps, each with one
execution that may close it), `PendingNeverStarted`, `CancelHonoured` and
`SuccessIsFinal`; `job_redelivery` checks `LedgerKept`, `ResultsServed`,
`AttemptsBounded`, `BatchNeverGrows` and `NeverStranded`; `job_liveness` checks
`StuckJobsFinish`.

The bounds are what the hazards need and little more: two workers make every
race between two executions (a third adds no new pair of program points), one
duplicate is enough for two live copies, one fault puts a crash at every point,
and a sweep adds a second, independent message. Two retries with a batch of four
are what it takes for a message that is delivered again to bring back a batch
size that already failed: with one retry the case never happens. The sweep
counts its passes only for a job that is not lost: of a lost job there are as
many passes as it takes, so no bound can stand in for the job's end.

Three properties have a premise. `SuccessIsFinal` is about a job with one message
that was never duplicated, no cancel and no soft time limit: what remains, and
what the run shows, is that the redelivery of that message after a crash at any
step finds the manifest. With retries it also excludes faults: a worker lost
between publishing its retry and acknowledging its message leaves two messages,
of which one may succeed and the other write over it. `BatchNeverGrows` is about
a job whose message is delivered once; why it needs that is in section 13. It
says that the row's batch size never rises and that an attempt never tries more
than it, in process or by a retry. It does not say that a retry tries something
new: it starts at a size that has already failed (section 13).
`NeverStranded` is about a job that no fault, cancel or sweep befell: a cancelled
job whose attempt starts all the same can lose its retry to the revocation, and a
sweep can write `queued` over a success. For those it is `StuckJobsFinish` that
says what happens.

### Fairness

`FairSpec` asks for weak fairness of the API request, of each worker's taking a
message and of its progress, of a cancel request in flight, of time passing the
cutoff, and of the sweep. Faults, lost messages and the choice of outcome are
never forced. The code schedules all but the last: nothing in the repository
runs `requeue_stuck` periodically (there is no beat schedule), so
`StuckJobsFinish` says what holds if an operator does: the job ends, or stays
`pending`, since nothing collects those.

### The finding

`job_cancel_running` checks `RunningCancelIsFinal`, which is what `docs/api.md:167`
and `jobs.py:119-121` say of a running job that is cancelled, and finds it
violated: `_record_success` (`runner.py:555`) writes `succeeded` over
`cancelled`, and nothing reads the row between the commit that starts the
attempt and the one that ends it. The trace is the cancel of a running job,
the output, and the success. What does hold is `CancelHonoured`: a cancel
with no execution in flight is final.

### Proofs

`JobLifecycleProofs` proves, for every set of workers, every finite set of
outputs and every value of the bounds:

| Theorem | Says |
|---|---|
| `TypeCorrect` | `Spec => []TypeOK` |
| `AttemptsAreKept` | `Spec => []AttemptsKept` |
| `ServedResultsExist` | `Spec => []ResultsServed` |
| `LifecycleKeepsLedger` | `Spec => LedgerKept` |
| `CancelIsHonoured` | `Spec => CancelHonoured` |
| `PendingIsUnstarted` | `Spec => []PendingNeverStarted` |
| `BatchesShrink` | `Spec => BatchNeverGrows` |
| `JobsAreNotStranded` | `Spec => []NeverStranded` |
| `SuccessesStay` | `Spec => SuccessIsFinal` |
| `WorkIsBounded` | `Spec => []AttemptsBounded` |

The central invariant is `AttemptInv`. `RunsContiguous` alone is not inductive:
that `Start` takes the next number needs `LoadedBehind`, "what a worker loaded is
not ahead of the row", which with the unique constraint leaves
`seen.attempts + 1 = attempts + 1` as the only number `Start` can commit.
Ownership then says the run row a worker closes is the open one it created,
which is what the ledger's `Succeed` and `Fail` require, and `OutputsStored`
(what an execution put is stored) is what makes a published manifest backed.
Each is preserved action by action; actions that write none of its variables are
dispatched by one lemma.

The dispatch theorem needs its own invariant `DispatchInv`: until the request
is done the row can only have become `queued` or later through the worker.

`BatchesShrink` rests on `SoleMessage`: a job with one message that was never
copied or redelivered has it in exactly one place, in the broker or in one
worker's hands. `BatchInv` adds that this message carries at most the batch of
the row, which `_halve` keeps because the worker that retries holds it, and that
a worker in the loop holds the job (`TrialsHeld`) and tries no more than the
row's batch (`TrialsFit`).

`JobsAreNotStranded` rests on `HandsInv`. The property says that somebody holds
the job; to be inductive it must say that somebody still does something for it
(`Carrying`): a worker that loaded the job counts only if the row has not moved
on since, for otherwise its start will conflict, and a worker whose attempt
raised only if the failure will be retried or recorded. The case that takes an
argument is a start that conflicts: the one that overtook it carries the job.

`SuccessesStay` rests on `FinalInv`: the one message is in one place (`Exclusive`,
which without retries follows it beyond the end of the attempt, since a worker
lost before its acknowledgement gives it back), and once the row says
`succeeded` no worker is between reading the row and writing it.

`WorkIsBounded` counts credit. A message is worth the attempts it may still
start, its own and its retries': the pairs of it and a retry number from its own
up to `MaxRetries`. `CreditInv` says that the attempts made and the worth of all
messages, in the broker (`InQueue`), at work (`AtWork`) and not yet published
(`Reserve`), are together no more than `MaxRetries + 1` for each dispatch, copy
and fault. Starting an attempt turns one unit of worth into an attempt; a
delivery or a retry moves worth from one place to the other; only a dispatch, a
restored copy or a fault adds any, and it is paid for by what it adds to the
right side. A weaker count, of messages times `MaxRetries + 1`, is not
inductive: a message on its third retry would still be worth three attempts.

What is left to TLC is liveness.

## 4. The asset

### AssetUpload

One asset, the requests its owner makes, the object store, and a job that reads
the bytes. The row and the objects are two stores without a common transaction,
and every request decides on the row as `owned_asset` loaded it.

| Variable | In the code |
|---|---|
| `row` | `status`, `storage_key`, `content_type`, `content_sha256` of the `assets` row |
| `objects` | the object store under the keys of this asset |
| `presigned` | the presigned PUT URL of `create_upload_url`: none, valid or expired |
| `pc`, `loaded`, `got` | per request: where it is, its session's copy of the row, the payload it validates with the declared type |
| `job` | a job of the asset: the hash its idempotency key was made of, the key it loaded, what it read |
| `deletes`, `faults` | whether a delete was requested; the budget of faults |

| Actions | Handler |
|---|---|
| `CreateUploadUrl` | `POST /assets/upload-url` |
| `DirectPut`, `PresignExpires` | the client and the store, past the API (external) |
| `UploadAssetContent`, `ReceiveBody` | `PUT /assets/{id}/content`: the status check, then the body |
| `UploadAsset` | `POST /assets` |
| `CompleteUpload`, `FetchUploaded`, `UploadIncomplete` | `POST /assets/{id}/complete` |
| `Reject`, `Store`, `Finalise` | `_store_and_finalise`, which the three share |
| `DeleteAsset`, `CommitDelete`, `RemoveObject` | `DELETE /assets/{id}` |
| `RequestDies` | a crash, a disconnect, a refused call at any step |
| `ProcessAsset`, `RunLoadsAsset`, `RunReadsObject` | `process_asset` and `JobRunner`'s read of its source |

Abstractions. A content stands for its SHA-256. The keys of one asset differ
only in their extension, and the extension goes with the sniffed type, so a key
is a type. A `Content-Type` header that contradicts the body is one more
rejected content. What makes the interleavings interesting is kept: a session
is READ COMMITTED and its `UPDATE` names only the columns it changed since it
loaded them, so `Flush` writes those over the row as it is by then, and two
uploads of different types may each write some columns.

**AssetContract** is what the owner is promised: reserve, accept the bytes once,
serve exactly those, delete for good. `ContractKept` is the refinement, with
`bytes` mapped to what a download would serve.

### Runs

`asset_concurrent` runs three requests that overlap in any way. What holds of all
of them is `ServesValidated`: until somebody deletes it a ready asset has an
object at its key, and what is stored and hashed has passed validation.

The other three properties are about clients that wait for each other. The
history variable `serial` of `AssetSerial` says that so far no two requests
were in flight and nothing was written past the API (the configuration runs its
`SerialSpec`): then `ContractKept` is the
refinement of `AssetContract`, step by step, even when requests die at any
point; `SerialBytesMatch` says the row describes the bytes and a job reads those
its key was made of; and `DeleteRemovesBytes` says that a delete that met no
failure leaves none of the asset's bytes, under any key, whatever was uploaded
and refused before. While a presigned URL is valid a client may overwrite the
object of an asset that was already completed, and nothing in the code would
notice, which is why these exclude it.

Three requests are every pair of handlers with a third one in between, and two
faults a failed request and a failed retry of it. Every request is made once and
no liveness is claimed, since clients may stop at any time.

### Proofs

`AssetUploadProofs` proves, for every set of requests, contents and types and
every bound:

| Theorem | Says |
|---|---|
| `UploadTyped` | `Spec => []TypeOK` |
| `UploadsAreServed` | `Spec => []ServesValidated` |
| `BytesMatchInTurn` | `SerialSpec => []SerialBytesMatch` |
| `DeletesLeaveNothing` | `SerialSpec => []DeleteRemovesBytes` |
| `ContractIsKept` | `SerialSpec => ContractKept` |

`ReadyHasObject` speaks of the row alone, but the row is written by requests
that only remember it. The invariant `KeysStored` therefore says, as long as
nobody asked for a delete: a ready row, and one whose key is no longer the
reserved one, has the key of a stored object; a request that loaded a moved key
loaded it after the row had it; and a request that has written its object finds
it there when it finalises. With it, whichever columns a stale `Flush` writes,
the key that results is that of a stored object. `RowExists` (requests and
presigned URLs only exist once the row does) rules out a late reservation.

The last three have one invariant, `SerialInv`, whose content is `InTurn`: as
long as clients wait for each other,

- the session of the one request in flight is current (`SessionCurrent`), so its
  `Flush` writes what it changed and nothing older;
- a ready row describes the object at its key (`Described`), because the asset
  is written only before it is ready, by the request that makes it so;
- a job reads what it was keyed by, or nothing after a delete (`JobMatches`);
- while nothing failed, the store has no object but that of the ready row or of
  the request about to finalise it, and after the delete at most the one about
  to be removed (`NothingLeft`). This is where an upload that was refused after
  it was stored would show.

None of these is inductive without the others: that a delete finds the key of
the object it must remove needs that its session is current, which needs that it
is alone, and that nothing else is left needs what the uploads before it left.
The refinement then follows step by step: `Finalise` of a valid upload is the
contract's acceptance, `CommitDelete` its deletion, and every other step, a crash
included, leaves what a download would serve as it is.

## 5. The video pipeline

### VideoPipeline

Three processes joined by pipes: the decoding ffmpeg, the worker, and the
encoding ffmpeg. Frames are numbered, and what leaves the worker for a frame is
its number and the numbers of the alphas it was smoothed from.

| Variable | In the code |
|---|---|
| `source`, `mode`, `fits`, `batch_size` | the frames of the source, `VideoRequest.mode`, how many frames fit the 8 KiB that Python buffers, the batch size of this pass |
| `py`, `raised`, `interrupted` | where `process()` is, the exception on its way out, whether the soft time limit fired |
| `batch`, `held`, `pos` | `_batched`'s list, `process()`'s loop variable and how far its inner loop is |
| `checked` | `_check_exit` has returned |
| `smoother` | `TemporalSmoother`'s buffer |
| `decoder`, `encoder` | each child: running, blocked on its stderr, exited well or not; the messages in its stderr pipe |
| `stdout`, `stdin`, `eof` | the two bounded pipes; whether the writer closed its end |
| `unflushed` | how many of the last frames of `stdin` are still in Python's buffer |
| `output` | the frames of the destination |

The worker's actions follow the control flow: `Start` opens both children;
`ReadFrame`, `ReadEof`, `CheckExit` and `Yield` are `_batched` over
`FrameReader.frames`, the append and the hand-over apart, since between them a
full new list and the last one exist at once;
`Infer`, `InferFails`, `WriteFrame`, `BrokenPipe` and `NextBatch` the loop of
`process()`; `CloseWriter`, `DrainStderr`, `Reap` and `CloseReader` the exits of
the two context managers, the writer's first; `Deliver`, `OomRetry` and `Fail`
what `_run_video` does next. `Interrupt` raises the soft time limit while the
worker works or blocks; `InterruptClose` and `InterruptDrain` in the two places
where the code suppresses it, the flush and the read of stderr in `close()`. The
ffmpegs (`Decode`, `Encode`, ...) are external: they take a frame when the pipe
allows, may complain on stderr, and may die.

Abstractions. A pipe holds whole frames (a last frame cut short is dropped by
`frames()`); a frame's data is its number; refinement and rendering are part of
`Infer` and `WriteFrame`; an EMA smoother is a window as long as the video.
What an ffmpeg says on stderr is a count of messages. A frame either fits
Python's buffered writer, which then holds it back until the next one does not
(`Put`), or passes it by; a partial flush moves whole frames. The signal is taken
in a blocking call or in Python code, not between entering `close()` and its
first call.

### Runs

Five frames are one full batch and a rest, and at the smaller sizes several
batches; with `fits` 1 the last frame waits in the buffer, with 0 none does; three faults are two out-of-memory failures that halve the batch twice
and one more failure. A pipe of one frame is the tightest, so every write can
block; a stderr pipe of one message with two to send can fill.

`FairSpec` asks for weak fairness of each of the three processes: the operating
system schedules them all, and a blocked read or write goes on once it can. A
failure, a message and the time limit are never forced.

`HangsOnlyOnStderr` says that a job ends unless, from some point on, an ffmpeg
is blocked on a full stderr pipe. The exception is real: neither child's stderr
is read while frames flow (`ffmpeg.py:216`, `:329`), and it ends with the hard
time limit. `HoldsTwoBatches` is weaker than what `video.py:6` says, never more than
`batch_size` frames, because the loop variable keeps the last batch while the
next one fills: it holds twice as many, and the run reaches that. `DeliversVideo`
lets a job that swallowed the soft limit lack the last frames, as many as Python's
buffer holds: a limit that fires while `close()` flushes loses them, the encoder
exits well, and the job succeeds. The run reaches that too. `NoOrphans` and `DeliversVideo` are about every way out of the
pipeline.

### Proofs

`VideoPipelineProofs` proves, for every source, mode, batch size, window, pipe
size and bound:

| Theorem | Says |
|---|---|
| `PipelineTyped` | `Spec => []TypeOK` |
| `MemoryBounded` | `Spec => []HoldsTwoBatches` |
| `ChildrenGone` | `Spec => []NoOrphans` |
| `VideoDelivered` | `Spec => []DeliversVideo` |

- Memory rests on `ListsBounded`: a list is handed over when it is full, and
  `OomRetry` halves the size only when both are gone.
- Orphans rest on `ChildrenReaped`: the encoder is waited for before the reader
  is closed, and without encoding there is none.
- Delivery is the deepest. A frame is in exactly one place, in order: decoded
  and in `stdout` (`DecodedInOrder`), read and in one of the lists
  (`ListsInOrder`), or written (`WrittenInOrder`, which also says that the
  smoother holds the alphas of the frames written last). `EndsWhole` adds that a
  pass without an exception wrote all of them and that its encoder exited well,
  which requires an empty pipe.

Each of these four is preserved relative to the ones before it, and each was
checked with TLC as an invariant before it was proved. `HangsOnlyOnStderr` is
model-checked only: it is liveness.

## 6. What a worker does with a job

### MediaJobs, ErrorPolicy, Placement

One worker process and the attempts it makes. `work` is the attempt in progress:
its parameters and source, its try and last failure, the batch size of the
current pass, where the model runs (`on`), the frames done, their `paths`, the
`file` made of them and the outputs `left` to store. `workdir` is its temporary
directory, `stored` the objects of the job, `ended` the result the row is given,
`verdicts` the process's cache of `_alpha_roundtrip_works` (yes, no or not asked
yet), `unrun` the history of the containers whose probe could not run, which the
cache does not tell from a no, and `site` the deployment: the hardware of the API's machine and of the worker's, the queues it
consumes, and the device of its settings.

- `Begins` routes the job (`Placement`) and takes it only from a queue the site
  consumes. `Opens` is the runner up to the pipeline: asset, model, background,
  the copy of a video; `OpenFails` one of those not found or not reached.
- A video: `Probe`, `CheckAlpha` and `ProbeAlpha`, `CheckLimit`, `Render` (one
  batch), `DecoderEnds`, then `EncoderEnds` or `Archive`, and `DeliverVideo` or
  `DeliveryFails`. An image: `ProcessImage`, `PutOutput`, `DeliverImage`.
- Every failure goes through `Raise`, which is the runner's loop over smaller
  batches inside the task's loop over retries: `classify` (`ErrorPolicy`)
  decides which of them the exception reaches. `WorkerDies` takes the cache
  along and leaves the directory.

Abstractions. A picture is its format, whether it carries alpha, and which
frames it holds. An output's name is its stem and its extension. A source is
what a probe may report of it and what decoding it does, which need not agree:
`declared`, `estimate` and `frames` are the frames its container declares, those
its duration implies, and those it has. `Carries` is what an ffmpeg build does
with alpha. An exception is its type and what its text matches. A request names
the runtime of its model, torch or ONNX, because only torch computes in the
precision that was resolved. `JobLifecycle` has the rows; here an attempt follows the failed one.

### Run

`media_jobs` takes thirteen sources, good and bad in each way the code treats
apart; eleven requests, among them every mode, each alpha container, the wrong
one, both runtimes, and the devices a client may name; six deployments, among
them an API without the GPU its workers have and one with a GPU they lack. Two jobs in one process are what a remembered
verdict needs, two retries and batches of two and of eight what the two loops
need to meet, and a frame limit of four has sources on both sides of it. The build it uses
carries alpha in WebM and QuickTime RLE, not in ProRes.

`FairSpec` asks for weak fairness of the worker's own steps: the process runs
until it is killed. `JobsEnd` then says that no order of failures keeps an
attempt going: a pass ends, batches shrink, retries run out.

- `RetriesWhatMayPass` has two halves. `Wrong` is said of the request and its
  source, not of the exception: no attempt at a wrong request renders a frame, and
  only an infrastructure failure has it tried again, except that an unreadable file
  whose stderr reads as out of memory is retried at ever smaller batches to the end
  (section 13). And what might pass is given up only at the last retry, out of
  memory only on batches of one.
- `RunsAsPlaced` relates the queue, which the API's machine decides, to the device,
  which the worker's does: they differ only as far as the machines or the settings
  differ. What a torch model reports as its precision is what it computes in; of an
  ONNX model that is not so (section 13) and is not claimed.
- `AlphaIsTrue`: a result that says it has alpha has it, and a refused container
  drops alpha in this build or had a probe that could not run. That probe may have
  been an earlier job's: what it refuses stays refused until the process ends, and
  the property says no more than that.

`StoresWhatWasAsked` compares three tables that are
written in three files: the extension an output gets, the content type of that
extension, and the format `encode_image` produces.

### Proofs

`MediaJobsProofs`, for every deployment, source, request, build and number of
retries:

| Theorem | Says |
|---|---|
| `NothingIsLeft` | `Spec => []NothingLeftBehind` |
| `RetriesMayPass` | `Spec => []RetriesWhatMayPass` |
| `PlacementsAgree` | `Spec => []RunsAsPlaced` |
| `AlphaStaysTrue` | `Spec => []AlphaIsTrue` |
| `RendersTheRequest` | `Spec => []RendersWhatWasAsked` |
| `StoresTheRequest` | `Spec => []StoresWhatWasAsked` |

- `Inv` says of an attempt that it is about one request and source, that a
  retry has a last failure which deserved it (`Deserved`), and that its model
  is where `On` resolved it; of a job that ended, that its directory is gone.
  `NothingIsLeft` follows at once, `PlacementsAgree` with facts about `Placement`
  alone.
- `Remembers` is the invariant of the verdicts: a yes is what this build does, and
  so is a no unless the container is in `unrun`.
- `Kept` follows a video through its places: the request is valid (`Known`), a
  transparent one passed the alpha check (`Checked`, which needs `Remembers`),
  the frames done are a prefix of those asked for (`Rendered`), the file has
  exactly those (`Filed`), and the job that ended delivered that file. The step
  that is easy to get wrong is a pass that starts over after an out-of-memory
  failure: it resets the count and the paths together.
- `Asked` follows the outputs into the store: those of an image that are not left
  to be stored are there under their own names with their own formats
  (`Storing`), and a job that succeeded serves exactly those (`Served`). An
  attempt that fails half way leaves objects behind, and the retry stores the
  same names again, so what matters is that an object's name determines its
  format. The rest is the tables, entry by entry: the suffix of every name has a
  content type, and it is the one of the format that was encoded.
- `Judged` follows what is wrong with a request: an attempt that has come to a place
  got right what the places before it check (`Passed`), its last failure excuses it
  (`Excused`), and a failed job failed for good (`Final`). The argument has one lemma
  for an exception (`RaiseJudges`) and, for each step, that the exceptions it raises
  fit a wrong request (`Fitting`); past the checks nothing is wrong (`RightByNow`,
  from `Kept`), so any exception does. `RetriesMayPass` and half of `AlphaStaysTrue`
  follow.

## 7. Storage

### ObjectStorage and AtomicStore

`LocalStorage` system call by system call, and `S3Storage` request by request,
for callers in several processes. `inodes` is the content of every file ever
made and `entry` the directory tree, so that a reader may hold a file whose name
is gone; `dirs` are the directories, `temps` the temporary files. `calls` is
each caller's progress and `told` the last answer of a put, get or delete.

- put: `MakeTemp`, `WriteChunk` until the payload is written, `Replace`, and
  `StatPath` for the metadata it returns; `WriteFails` removes the temporary
  file again.
- get and open: `OpenFile`, `ReadChunk`. delete: `Unlink`.
- list: `Walk` starts the walk, `Visit` comes to one place of the tree, in any
  order, and finds its file or not, `Sorts` puts what was found in order, and
  `ListEach` stats the files in that order, gone or not, and yields up to `limit`.
- S3: `S3Apply` is a request that takes effect, `S3Answers` its answer, and the
  client sends it again, at most `MaxAttempts` times, when the answer is lost;
  `S3Get` reads. A list asks for a page at a time (`S3Page`), which goes on after
  the last key of the page before and has what is there by then, and yields its
  items (`S3Each`) up to `limit`.
- `Dies` is a process killed at any point of a call.

`AtomicStore` is what the rest of the system relies on: a put or delete takes
effect at once, some time between its beginning and its answer (more than once
when the client repeats the request, perhaps never when the call fails), and a
get answers with a whole value its key held while it read. `KeepsAtomicStore` is
the refinement; the history variable `seen` holds the values a call may answer
with.

The two backends list in different orders: sorted paths compare name by name, S3
compares bytes, so that `a-/x` comes before `a/x` on S3 and after it on disk. The
constant `Rank` is that order for each backend.

Abstractions. A key is a short sequence of characters: only "/", prefixes and
order matter. `limit` (1000 unless a caller says otherwise) and the size of a page
are constants. A content is a sequence of chunks. `copy`, `exists`, `stat` on its own
and presigned URLs are left out; a write is on disk once it is made, so a loss
of power is not modelled (the code syncs the file, `local.py:85` and `:98`, but not
the directory it is renamed in). A repeated S3 request is
sent after the lost answer of the one before it; one that is delayed in the
network and arrives after a later call is left out.

### Run

`object_storage` has three callers, each with any call, payloads of two chunks,
so that a reader can meet half of one, keys `a/x` and `a-/x`, the prefixes
`a` and `a/`, which tell a prefix from a directory, limits of one and two and pages
of one, so that a list of two ends at its limit, or between two pages, or at the end.
Three calls and one fault are every pair of calls with a third between them.
`ListsWhatStays` has two mutants, a list that does not compare the prefix and one that
stops one short of its limit.

### Proofs

`ObjectStorageProofs`, for every set of callers, keys and payloads and every
number of chunks and attempts:

| Theorem | Says |
|---|---|
| `StorageTyped` | `Spec => []TypeOK` |
| `ObjectsAreComplete` | `Spec => []ObjectsComplete` |
| `StoreIsAtomic` | `Spec => KeepsAtomicStore` |
| `ListsHaveWhatStays` | `Spec => []ListsWhatStays` |

`Inv` is `TypeOK`, `EntriesWhole` (what is under a key is a whole payload),
`OneWriter` (no two calls write one file) and `Sound(c)` for each call: its
fields go with its place (`Shaped`), it writes a file that is under no key
(`WritesApart`), what it has read is the beginning of a file nobody writes any
more (`ReadsWhole`), and `seen` knows what its key held (`KnowsKey`). The
refinement is then proved action by action: most steps map to a stutter,
`Replace`, `Unlink` and `S3Apply` to `Apply`, and the ends of calls to an answer
or a loss.

A list has a history of its own: the keys that were there throughout, and those
that were there at some moment. `ListsSound` says for each list in progress
(`Progress`) that a key of the first kind is found or still to be looked at or, once
the list goes from page to page, comes after everything the list has while the store
says there is more; that one that is found is of the second kind; and that what is
listed comes before what is still to be listed, and is within the limit. A list cut
off by its limit therefore lacks an end only. A put and a delete of another caller
change both sets and must be followed through every list; the five steps of a list
have a lemma each. The walk itself is about paths: the
directory that is searched for a prefix has every key the prefix has, if the
prefix is of whole directories (`SearchFinds`, from `BelowParent`: a prefix of a
key has its last slash where the key has one). Without that premise the local
backend misses keys, see section 13.

## 8. Submission and the rate limiter

### RateLimiter and Submission

`RateLimiter` has the bucket of each identity in Redis (`redis`), those in each
process's `memory`, the time by the fastest clock (`now`), the processes that
gave Redis up (`redis_failed`), and `ledger`, a history of what each bucket
granted and of how far stamps have set its time back. `check` is two steps, as
in the code: it reads the clock and looks whether Redis was given up, and later
takes from a bucket, by the Lua script (one action, since Redis runs it
atomically), from memory, or from both when the call raises after the script
ran. Threads and processes interleave between the two, so stamps reach a bucket
in any order. A clock shows `now` less any of `Lags`, whichever at each reading:
clocks differ and are set forward and back. Redis counts an expiry from the call,
so what its own clock shows does not matter.

`Submission` adds the `requests` in progress and the `jobs` rows: `Arrive` (the
stamp), `RateLimit`, `Lookup`, `Insert`. After the insert `JobLifecycle` takes
over.

Time is in milliseconds and a token is `Cost` units, so that the refill of a
millisecond is an integer. A derived idempotency key is a digest; it is a record
of the asset and never equals a client's. A restarted process is one more
process, with empty buckets.

### Run

`submission` has one process with a thread for each of three requests, a bucket
of one request (3001 units) refilled at 2 units a millisecond, a clock that is
right or one or two seconds behind at each reading, and the instants 0, 1500 and
5000 ms: a bucket empties, refills, is refilled twice after a late stamp, and
expires; the process gives Redis up before, between and after the checks. Two
seconds is the longest lag `ExpiresFull` allows. One process is enough for the
bucket in Redis: it does not tell who called, and the stamps of one process are
as late and as disordered here as those of several would be. That each further
process that gave Redis up has a burst of its own is proved (`QuotaHolds`). The three requests race for one
key in every order. The odd unit makes both roundings matter: at one of the
stamps 1.0005 s are missing, for which the header says 1.

`WithinQuota` has no premise on the clocks: what stamps out of order add is a
term of the bound (`behind`), and without that term TLC finds it exceeded. It
also says from how many buckets an identity can draw: that of Redis and those of
the processes that gave Redis up. `ExpiresFull` (in `KeepsTime`) needs a lag of
no more than the time an empty bucket takes to fill. `RetryIsHonest` allows the
wait to be a millisecond short, which `int(retry_after + 0.999)` can be.

### Proofs

The second half of `ClientProofs`, for every number of processes, identities and requests and
every capacity, cost, rate and lag: `SubmissionTyped`; `QuotaHolds`;
`TimeIsKept`, from `ExpiryHolds` and `RetryHolds`; and `OneJobOfAKey`, from
`KeysAreUnique` and `LosersFindAJob`.

`LimiterInv` is the invariant of a bucket: what it granted and what it still
holds are paid for by its burst, the time up to its timestamp and the time its
timestamp was set back (`Paid`); one that was dropped has been refilled all it
granted; its expiry is at least two fillings and a second after its timestamp
(`RedisKept`); a process that did not give Redis up granted nothing
(`MemoryKept`). `WrittenPays` is the step of one check, whatever its stamp, as
long as no stamp is of the future (`StampsPast`). The arithmetic is in
`CeilEnough`, `Monotone`, `Distributes`, `Thousand` and `FillEnough`. Submission needs that
no two rows have one key (`JobsKeyed`) and that an answer names a row of its key
(`AnswersKeyed`).

## 9. Weights and models

### ModelStore

The processes that meet at the weight files. `disk` gives each place its bytes
(what they are: genuine, wrong, converted from what, of which epochs), whether
they are whole, and the time they were written, for which `writes` is the clock.

- `download_weights`: `Fetch`, `NextMirror`, `Streams` (each mirror may deliver
  something else or less, and need not announce a length), `Installs`,
  `DownloadDies`, in `download`, which also keeps what each installed last.
- `u2net/from_onnx`: `ConvertReads`, `ConvertVerifies`, `ConvertHashes`,
  `ConvertReplaces`, `ConvertDies`. The graph is opened three times: by `onnx`, by
  onnxruntime for parity, and to be hashed.
- `export_onnx`: `ExportStarts` and `ExportWrites` (the graph is written in place),
  `ExportReloads` and `ExportCompares` (parity, against the checkpoint as it is by
  then), `ExportDies`, in `exporter`; `verdict` is the last report. A graph that
  fails parity stays where it is, as in the code.
- `training/train.py`: `TrainStarts`, `Epoch`, `Saves`, `TrainEnds`,
  `TrainDies`; `latest` is the record of the last run.
- The worker's `ModelCache`: `Get`, `Load`, `Trim`, `WorkerDies`. `cache` is the
  LRU order, `resident` what the device holds, `given` what a pipeline runs.
- A benchmark process: `BenchLoads`, `BenchStats`, `BenchDigests`, with `memo`
  for the memoised digests, of checkpoints and of the graphs of ONNX models.

The registry's entries are a table with the runtime and the file each needs, and
`ResolveWeights` is the adapters' rule for which one is opened. `Listed`
(`GET /v1/models`) and `catalogue` (`GET /v1/models/catalogue`) are the two rules by
which a client is told what is available; what they said when a load was asked for
travels with it, and `refused` keeps it beside the reason the load failed. `CanRun`
is what the adapters import, `runtime_available` what the registry asks for: the
TensorRT adapter needs a CUDA binding the registry does not look for, and
`Submitted`, the refusal in `process_asset`, is what keeps that from a job. What a
machine has installed is the constant `Installed`. A score is an integer; tensors
are named by where they came from.

### Run

`models` takes one trained model and the two forms of a published one, so that
download, conversion, forced download and load share files. A cache of one makes
every load an eviction. The machine has TensorRT and a GPU but no binding, the one
case in which the two rules about runtimes differ. The graph the
exporter writes is that of a registered ONNX model, so it is loaded and measured
too. Six changes to files are those of two saved epochs and an export, and four pieces of work, two at a time, are a
load, an export or a measurement with a download, a conversion or a training run
beside it. States in which parity fails, or passes and is then overtaken by a
training run, in which a listed model is refused for its content, and in which a
model is loaded that was not listed, are all reached.

### Proofs

`ModelStoreProofs`, for every set of models, sources and conversions and every
bound: `FilesStayTrue` (`Spec => []FilesAreTrue`) and `RowsNameTheirWeights`
(`Spec => []RowNamesItsWeights`). The part of the first about exports,
`ExportsAreTrue`, is a theorem of its own, below; so is the part about downloads,
`InstalledIsWhole`, whose `Delivered` says that a file a download installed is as
whole as its length said, or has another time. The rest is `Origin`: a pinned file is
genuine wherever it is (`Genuine`), what a download is about to install was
compared with its pin (`Fetched`), what the converter extracted is what is
published under the graph's name (`Extracted`), and the exporter writes graphs
under names of its own (`Exporting`); so the graph hashed after it was read is the
same bytes. It needs `PinAssumption`, which the source table
fulfils: graphs that are converted are pinned, and nothing else writes a pinned
file. The second rests on `Dates`: modification times only grow
(`FilesTyped`), so a memoised digest is that of the bytes its path had at that
time (`MemoTrue`, `Measured`).

`ExportsAreTrue` (`Spec => []ExportsMatch`) rests on `Compared`: while the exporter
compares, the checkpoint holds what was loaded if its time is the one noted then, and
a report that passed says so of both files. A write gives its file a time nothing has
noted (`PutStamps`), so it falsifies the premise rather than the conclusion
(`PutKeepsCompared`).

`RunsNameTheirBest` (`Spec => []RunNamesItsBest`) rests on `RunInv`: between
epochs the best of a run is the score of the first epoch that reached it and the
checkpoint holds that epoch's weights (`FirstBest`, `SavedAs`), or no epoch was
scored and there is none; while a checkpoint is written the last epoch is that
one. It is undisturbed because the entries of the tables name different files
(`TablesDiffer`): no download, conversion or export writes the checkpoint.

`LoadsStaySound` (`Spec => []LoadsAreSound`) has two halves. The cache: its keys
differ (`Once`), the device holds those and no other, the newest is last and is
the one a pipeline was given, and it is over its bound by one at most, while it
is trimmed; `Appended`, `Evicted` and `Removed` say what that does to a sequence
without repetitions, `MovesToEnd` what a hit does. The files: no step removes a
file, a truncated checkpoint included, so what made a model listed or available is
there when it is loaded (`ListedIsThere`, `AvailableIsThere`); and a model that may
be submitted and is said to be usable has its runtime (`RuntimeIsThere`). `Promised`
is what of that a load in progress may rely on. Both need `NameAssumption` (what is asked for, downloaded,
trained and exported is in the registry, the source table and the table of architectures) and
nothing else about the constants.

## 10. Benchmarks

### Benchmarks

One suite at a time: `suite` has its arguments, cases and the next one,
`results` the rows, `torch_threads` the process-wide thread count, `model` the
case that is loaded, `files` the reports, `docs` and `readme` the report each
document was last rendered from. `LoadModel` or `LoadFails`, `MaybeCompile`,
`SampleLoad`, and `Measure` or `MeasureRaises` are the steps of one case in
`harness.py`; `SaveReport`, `RenderDocs` and `RenderReadme` follow the last, and
`Renders` is the separate rendering command. A timing or a score is left out; a
row keeps what it claims about how it was measured. The tables of the two
documents are the sets of rows they show (`MainTable`, `SweepTable`,
`accuracy_detail_table`, `skipped_table`) or the pairs they set side by side
(`Pairs`, `Compared`).

### Run

`benchmarks` selects a trained model with its ONNX export by name, or a baseline
and an architecture with random weights by label, which between them have every
kind of case, with and without `--quick` and the three switches that leave out
batches, sweep and rendering (`--quick` leaves out the compiled cases). Torch and
onnxruntime take 3 and 5 threads by default and the sweep asks for 1 and 2, so
no two of these coincide by chance; a second suite can replace the first in the
archive; one mishap is a contended sample, a failed load or an exception.

Each case of the sweep leaves its thread count to the process. The lists of
`run.py` put the sweep last, so a case that returns to torch's own default after
a sweep case, which `_apply_threads` provides for, does not occur in them; what
`RowsAreAsMeasured` finds is a case measured at another's count, or a graph whose
adapter was not handed its own.

`ContentionIsDisclosed` says what the documents do, not what the page says of
itself: a contended row that is shown is marked or is in the load table of the
same page, and every explanation of the mark depends on the whole report, not on
the table above it (section 13).

### Proofs

`BenchmarksProofs`, for every list of rungs, every argument and number of runs:
`RowsAreTrue` (`Spec => []RowsAreAsMeasured`), `ContentionIsTold`
(`Spec => []ContentionIsDisclosed`) and `ReportsStaySound`
(`Spec => []ReportsAreSound`). Threads rest on `ThreadsApplied` and
`Measured`: once a case is loaded the process has that case's count, and the
adapter of a graph was handed it. The rest is
`Reports`: reports are numbered in order, a saved one is truthful about its
rows, and only full ones reached a document.

`ReportsStaySound` adds `InOrder`: the rows of a suite are those of its first
cases, in their order, and each claims what its case is (`Reported`, `Faithful`).
That a saved report has a row for each case needs that every way through a case,
skipped, failed, fallen back or measured, adds one and goes on (`RowInOrder`).
What the tables make of the rows needs to know what cases there can be: `Planned`
says which combinations the builders of the case lists produce, and is proved of
each list (that no case is compiled outside of PyTorch, and that only the sweep
leaves accuracy out). With it the three tables cover all rows, and a pair that
is compared ran the same code. `ContentionIsTold` rests on it too: a row has a
load sample exactly if it was measured (`OneStory`).

## 11. The studio page

### Studio

One tab: a step is one event of its event loop, a click or an answer, with the
render and the effects it sets off, in the order React runs them. `batch`,
`active`, `busy` and the polled job `seen` are the component's state; `loops`,
`reruns`, `poll`, `asking` and `fetches` are the calls that wait for an answer and
the values they captured when they began, which is where stale state comes from;
`outputs` is the map of blob URLs and `shown` the memo derived from it. The
server is its jobs with their statuses: a new job is queued, or pending for good
if its dispatch failed (`Dispatched`); `JobMoves` is a worker, and `JobRequeued` a
sweep or a redelivered message that writes `queued` over any later status.
`poll_error` is the job whose poll failed, since the page keeps the message when
it turns to another job. `latest`, `cleared`, `overlapped` and `leaked` are
history that the properties need.

### Run

`studio` has two files, so a batch and a re-run can cross, two output kinds, so
a map can be mixed, two jobs, three clicks and one failing request. Fairness:
every request is answered or fails (`Answers`, `Polled \/ PollFails`,
`Fetched`). The user is never forced, and no job need ever end: `PollSettles`
is about one that has ended and stays so, and asks that the page see it, however
often it has asked by then, unless the poll of that very job failed.

Two properties have premises that are facts about the page and are described in
section 13: `BatchKeepsJobs` excludes a Clear while a request is in flight, and
`OneJobsOutputs` a job left while its outputs are fetched. `ShowsItsResult` is
about a panel whose outputs have all arrived: before that, and after a Clear, the
memoised URL may be one that was revoked.

### Proofs

The first half of `ClientProofs`, for every set of files and drops and any number
of jobs, clicks and errors: `BatchesKeepTheirJobs` (`PageSpec => []PageIsSound`)
and `PicturesAreOfOneJob` (`PageSpec => []OutputsAgree`). `StudioAssumption` says
of a drop what the page is given: the drop zone passes no empty list on, and every
entry is a `File` object of its own.

`PageInv` has three parts. `PageKnown`: every job id on the page, in a loop's copy
or in the poll, is of a job the server has, whose jobs only become more
(`JobsGrow`); the answer of a poll is typed because of it. `PageAlone`: until a
Clear lands on a request, at most one call that writes the batch is in flight
(`OneCall`), because `busy` is set while one is and closes the way to a re-run, and
because a batch that could be dropped onto is empty, which a loop's copy never is
(`Idle`). So the copy a loop writes back is the batch as it is, and the index a
re-run kept is still that of its file. `PageOutputs`: at most one run of the effect
waits for outputs, those it waits for are not in the map, and without a failure
those it does not wait for are (`FetchSound`, `Complete`).

## 12. What is only model-checked

- Liveness, which the prover cannot express: `StuckJobsFinish`,
  `HangsOnlyOnStderr`, `JobsEnd`, `WaitingEnds`.

Every other property that a passing run checks is a theorem.

The finding of section 3 is a counterexample, not a proof.

## 13. What the code does that its documentation does not say

Each of these was met while modelling and is part of the model unless noted.
They are the reason for the premises of some properties.

Jobs:

- A job whose dispatch failed goes back to `pending` "so the `requeue_stuck`
  maintenance task collects it" (`assets.py:619-620`), but `pending_jobs` selects
  only queued and running rows (`runner.py:647`).
- A sweep may publish a second message for a job that is executing or done, and
  then writes `queued` over its status (`tasks.py:244`), although it "is safe
  precisely because the tasks are idempotent" (`tasks.py:229-230`).
- A failed job whose message is delivered again is executed again
  (`runner.py:308` returns early only for a success), and redeliveries add
  attempts beyond `MAX_RETRIES + 1` (`tasks.py:55`).
- "The retry carries a halved batch size" (`tasks.py:25-28`), but an OOM that
  leaves `_run_video` has already failed at that size, at each half of it and at
  one (`runner.py:447-452`), so the retry starts by repeating what failed. "Below
  batch size 1 there is nothing left to halve, so the failure becomes permanent"
  (`runner.py:30-31`): it is an OOM all the same, and is retried. And a worker that
  dies between publishing the retry and acknowledging its message leaves two
  messages, the older with the larger batch, and `_apply_batch_override` writes it back. A
  batch of one is retried unchanged (`tasks.py:62`).
- The soft time limit raised while `FrameWriter.close` flushes and closes the pipe
  or reads stderr is suppressed (`ffmpeg.py:348`, `:352`): the job goes on, and may
  succeed without the frames that were in Python's buffer.
- Two identical submissions at once: the loser of the insert gets a 500, not
  "the original job with `200`" (`main.py:61`); `LosersHaveAJob` says that its
  retry does.

Assets:

- Two overlapping PUTs may replace the bytes of a ready asset: the status is
  compared (`assets.py:275`) before the body is awaited. `assets.py:271-273` says
  re-uploading is rejected.
- An upload in flight when its asset is deleted writes `ready` over `deleted`
  (`assets.py:166`; `deps.py:197-198`: "a delete is not reversible").
- Bytes put directly at the reserved key stay in the store when validation
  corrects the extension (`assets.py:163`), also after a delete (`:487`).

Video and images:

- A worker holds up to `2 * batch_size` frames (`video.py:307`, `:546`), not
  `batch_size` (`video.py:6`).
- The frame limit is compared with the container's count, which may be 0 or too
  small (`docs/security.md:87` says such videos are rejected); `max_frames` above
  the limit is refused for a short video too.
- A rotation of 90 or 270 degrees is applied by ffmpeg while the frame size is
  that of the stored stream (`ffmpeg.py:141-143`). Not modelled: pixels.
- A probe of an alpha codec that could not run is remembered as a no for the
  life of the process (`ffmpeg.py:588`, `:638`): every later transparent job of that
  container is refused as if the build dropped its alpha.
- "Type checks come first" (`errors.py:88`), but OOM words in the text are looked
  for before any type that names a wrong request (`:100`), and the text may be an
  ffmpeg's stderr: an unreadable upload may be retried to the end, at batches of
  one. A `503` anywhere in the text of an unlisted
  type makes it transient; a truncated JPEG is an `OSError` and is retried
  (`tasks.py:19`: "a corrupt upload ... does not improve on attempt three").
- Audio is copied as it is: a source with AAC fails in WebM. A video without
  frames in `frames` mode fails with `IsADirectoryError`. A killed process leaves
  its temporary directory. A background image is opened without a pixel limit
  (not modelled).

Queues and devices:

- `assets.py:583` calls `select_queue` without `gpu_available`, so the API looks
  at its own machine. With the CPU build of torch in its image no job ever
  reaches the GPU queues; `CUTOUTML_GPU_WORKERS`, named in `queues.py`, is read
  nowhere. The queue is chosen from `payload.device`, the job's device falls back
  to `settings.device`.
- An unknown device is accepted and fails in the worker as `internal_error`. An ONNX
  model reports the precision that was resolved (`base.py:235`) and computes in
  float32 (`onnx_adapter.py:237-239`). The precision of a run stays the requested one (`docs/data-model.md:93`: "what was
  actually used"), and the model cache is keyed by the requested strings.

Storage, limiter, health:

- `LocalStorage.list(prefix)` searches only the directory the prefix names, S3
  every key with the prefix; hence the premise of `ListsWhatStays`.
- `rate_limit` runs before the user is known, so an identity is always an
  address; `user_rate_limit` is not used. One Redis error sends a process to its
  own buckets for good, so an identity may have a burst from each process and
  from Redis. The clock is read before the script is called (`ratelimit.py:169`,
  `:174`) and the script writes its stamp whatever it finds (`:61`), so a late
  stamp, or one of a clock that is behind, sets the bucket's time back and the
  same time is refilled twice. `Retry-After` may be up to a millisecond short
  (`:87`).
- An idempotency key is not bound to the asset it was sent with, and is cut to
  128 characters. The storage part of the readiness endpoint calls a generator
  and never iterates it (`health.py:90`). Neither cut nor endpoint is modelled.

Weights and training:

- `GET /v1/models` does not look at `alt_weights`, although "a model should not
  report itself unavailable because the weights present are the second kind"
  (`spec.py:124-125`): with only `u2net.pth` on disk `u2net` is listed as unavailable,
  is available in the catalogue, and loads. `cutoutml models` lists graphs as
  available without looking. `onnx_path` is relative to the
  working directory while weights are in `settings.model_weights_dir`, and
  training writes into the repository: hence the premise of `AvailableLoads`.
- Checkpoints and exported graphs are saved in place, so a kill leaves a truncated
  one; a graph that fails parity is reported and stays where it is served from.
  `process_asset` refuses the TensorRT model on every machine, whatever it has. With
  no epoch the record's best is -1. "Metrics are appended to a
  JSON file per epoch" (`train.py:25`): the file is written at the end.
- Two conversions share one `.partial` file; an unpinned source that announces no
  length may be installed truncated. The TensorRT engine cache is never looked
  up. A worker keeps the weights it loaded when the file changes.

Benchmarks:

- "One bad case must not abort the suite" (`harness.py:330`) is about loading: an
  exception while measuring leaves `run()` (`:344-386`) and nothing is saved.
- The page says that contended figures are marked "wherever they appear"
  (`render_report.py:195-196`); the sweep and runtime tables mark none, and their
  rows are told from the load table only. The legends of the mark look at the
  whole report (`:150`, `:862`): a contended row of the sweep alone, or of a
  larger batch in the README, prints the legend under a table with nothing to
  mark, which `:55-58` wants to avoid. A report whose cases were all skipped is
  said to predate contention measurement (`:176-177`).
- Contention is sampled before the timing loop, not during it. `--models` with a subset overwrites the
  published documents. Two runs that start in one second have one id. Reports
  are written in place. The documents use two different rules for saying that
  more threads were slower. The last three are not modelled.

The page:

- Clear while a request is in flight: its answer writes the old batch back.
- A job that is left while its outputs are fetched: the answers still write the
  shared map, which then has URLs of two jobs, and an overwritten URL is not
  revoked (`Studio.tsx:64-66` says it is).
- The page polls until a terminal status, so a job whose dispatch failed, which
  nothing collects, is polled for as long as it is looked at; and it stops at the
  first terminal status (`hooks.ts:82`), so a failed job that is picked up again
  is shown as failed until another one is looked at.
- Clear revokes the URLs but the memo that chose one (`Studio.tsx:116-125`) depends
  on neither: the next batch shows a broken picture until its first outputs arrive.
- `refresh` drops the token on any error, and the tabs of a browser share the
  one in localStorage. Not modelled.

## 14. What is not modelled

- Pixel arithmetic, networks, refinement, metrics, the optimiser, timings:
  numerics.
- `compare_smoothing`, `frames_to_video`, the probes of files that are not
  videos; S3 `copy`, `exists`, `stat` and presigned URLs; power failures; late
  duplicates of an S3 request.
- The limit of 100 rows in `pending_jobs` (`runner.py:649`), which takes the
  oldest before the cutoff filters them: `JobLifecycle` has one job. It is listed
  as a hazard without a property.
- The database engine: a commit is one step, a unique constraint admits or
  refuses it.
- Authentication (cryptography and one equality per request), the benchmark and
  health endpoints, the OpenAPI schemas, configuration, logging, metrics, the
  command line, the data sets: nothing else depends on state of theirs.
- The client's session, sign-in panel, video and catalogue pages. In `Studio` a
  render and its effects are one step, as React runs them after an event.
- The wording and layout of benchmark reports, and markers missing from the
  README file they are written into.

Bounds of the models that are not bounds of the code (numbers of faults, jobs,
calls, clicks, changes to files, seconds) are named `Max...` and marked "bound"
in the CONSTANTS of each module.
