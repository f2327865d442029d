---------------------------- MODULE JobLifecycle ----------------------------
(***************************************************************************)
(* One inference job, from POST /assets/{id}/process to a terminal status: *)
(* the API request that creates and dispatches it, the owner's cancel      *)
(* requests, the Celery messages that carry it, the worker processes that  *)
(* execute it, and the requeue_stuck sweep.  All of them share nothing but *)
(* the inference_jobs row, its inference_runs rows, the output objects and *)
(* the broker.                                                             *)
(*                                                                         *)
(* Every database commit is one action, and what a handler read before it  *)
(* is kept in that handler's own variables: the sessions run READ          *)
(* COMMITTED with no row version, so a commit may be based on a stale      *)
(* read.  SQLAlchemy only writes the attributes whose value changed since  *)
(* they were loaded; where that decides an outcome the action says so.     *)
(***************************************************************************)
EXTENDS Naturals, FiniteSets

CONSTANTS
    Workers,        \* prefork children; each executes one task at a time
    Outputs,        \* the outputs the job was asked for
    MaxRetries,     \* tasks.MAX_RETRIES
    InitialBatch,   \* params.video.batch_size when the job is created
    Failures,       \* the kinds of exception an attempt may raise
    MaxFaults,      \* bound: lost messages, dead processes, failed commits
    MaxCopies,      \* bound: deliveries restored while the first copy runs
    MaxCancels,     \* bound: cancel requests
    MaxSweeps       \* bound: requeue_stuck passes over a job that is not lost

ASSUME ConstantsAssumption ==
    /\ IsFiniteSet(Outputs)
    /\ MaxRetries \in Nat
    /\ InitialBatch \in Nat \ {0}
    /\ Failures \subseteq {"transient", "oom", "permanent", "time_limit"}
    /\ {MaxFaults, MaxCopies, MaxCancels, MaxSweeps} \subseteq Nat

VARIABLES
    status,         \* InferenceJob.status, "absent" before the INSERT
    attempts,       \* InferenceJob.attempts
    result,         \* the attempt whose manifest InferenceJob.result is, or 0
    celery_task_id, \* InferenceJob.celery_task_id, or 0 for NULL
    batch_size,     \* InferenceJob.params["video"]["batch_size"]
    stale,          \* started_at or queued_at or created_at is before the cutoff
    runs,           \* inference_runs.status by attempt number
    stored,         \* the job's output keys that hold an object
    queue,          \* messages the broker can deliver
    sent,           \* Celery task ids handed out so far; the API's is 1
    revoked,        \* task ids the workers were told to discard
    pc,             \* where each worker is in _run_job
    held,           \* the unacknowledged message of each worker
    seen,           \* the status and attempts its execute() loaded
    mine,           \* the attempt it is executing
    trial,          \* the batch size _run_video's loop is at, and whether it is in it
    put,            \* the outputs that attempt has stored
    failure,        \* what its attempt raised
    api,            \* where the process_asset request is
    canceller,      \* the cancel request being handled
    sweeper,        \* the requeue_stuck pass being run
    used            \* how much of each bound has been consumed

jobRow   == <<status, attempts, result, celery_task_id, batch_size, stale>>
broker   == <<queue, sent, revoked>>
execs    == <<pc, held, seen, mine, trial, put, failure>>
vars     == <<jobRow, runs, stored, broker, execs, api, canceller, sweeper, used>>

-----------------------------------------------------------------------------
(* Types *)

Terminal  == {"succeeded", "failed", "cancelled"}
JobStatus == {"pending", "queued", "running"} \cup Terminal
RunStatus == {"running", "succeeded", "failed"}
Retryable == {"transient", "oom"}
Failure   == Retryable \cup {"permanent", "time_limit", "none"}
Message   == [task : Nat, retries : Nat, batch : Nat]

NoTask    == 0
ApiTask   == 1
NoMessage == [task |-> NoTask, retries |-> 0, batch |-> 0]

NothingSeen == [status |-> "absent", attempts |-> 0]
NoTrial     == [at |-> "none", batch |-> 0]

\* A first delivery carries no batch_size; only an OOM retry does.
NewMessage(task) == [task |-> task, retries |-> 0, batch |-> 0]

\* Between its start commit and its last write an execution is live.
Live      == {"running", "returning", "raised"}
Executing == Live \cup {"received", "loaded"}

TypeOK ==
    /\ status \in JobStatus \cup {"absent"}
    /\ attempts \in Nat
    /\ result \in Nat
    /\ celery_task_id \in Nat
    /\ batch_size \in Nat
    /\ stale \in BOOLEAN
    /\ DOMAIN runs \subseteq Nat
    /\ runs \in [DOMAIN runs -> RunStatus]
    /\ stored \subseteq Outputs
    /\ queue \subseteq Message
    /\ sent \in Nat
    /\ revoked \subseteq Nat
    /\ pc \in [Workers -> Executing \cup {"idle", "finishing"}]
    /\ held \in [Workers -> Message]
    /\ seen \in [Workers -> [status : JobStatus \cup {"absent"}, attempts : Nat]]
    /\ mine \in [Workers -> Nat]
    /\ trial \in [Workers -> [at : {"none", "set", "loop", "over"}, batch : Nat]]
    /\ put \in [Workers -> SUBSET Outputs]
    /\ failure \in [Workers -> Failure]
    /\ api \in {"start", "inserted", "queued", "sent", "unsent", "done"}
    /\ canceller \in [pc : {"idle", "loaded", "committed"}, task : Nat]
    /\ sweeper \in [pc : {"idle", "scanned", "sent"},
                    status : JobStatus \cup {"absent"}, task : Nat]
    /\ used \in [faults : Nat, copies : Nat, cancels : Nat, sweeps : Nat]

Init ==
    /\ status = "absent"
    /\ attempts = 0
    /\ result = 0
    /\ celery_task_id = NoTask
    /\ batch_size = InitialBatch
    /\ stale = FALSE
    /\ runs = [a \in {} |-> "running"]
    /\ stored = {}
    /\ queue = {}
    /\ sent = ApiTask
    /\ revoked = {}
    /\ pc = [w \in Workers |-> "idle"]
    /\ held = [w \in Workers |-> NoMessage]
    /\ seen = [w \in Workers |-> NothingSeen]
    /\ mine = [w \in Workers |-> 0]
    /\ trial = [w \in Workers |-> NoTrial]
    /\ put = [w \in Workers |-> {}]
    /\ failure = [w \in Workers |-> "none"]
    /\ api = "start"
    /\ canceller = [pc |-> "idle", task |-> NoTask]
    /\ sweeper = [pc |-> "idle", status |-> "absent", task |-> NoTask]
    /\ used = [faults |-> 0, copies |-> 0, cancels |-> 0, sweeps |-> 0]

\* Faults are the environment's; each one uses up part of MaxFaults.
Fault ==
    /\ used.faults < MaxFaults
    /\ used' = [used EXCEPT !.faults = @ + 1]

-----------------------------------------------------------------------------
(* The API request: process_asset and its _dispatch *)

\* The new row is committed before anything else sees it.
InsertJob ==
    /\ api = "start"
    /\ status' = "pending"
    /\ api' = "inserted"
    /\ UNCHANGED <<attempts, result, celery_task_id, batch_size, stale,
                   runs, stored, broker, execs, canceller, sweeper, used>>

\* The session's copy still says pending, so the UPDATE writes queued whatever
\* the row says by now.
MarkQueued ==
    /\ api = "inserted"
    /\ status' = "queued"
    /\ stale' = FALSE
    /\ api' = "queued"
    /\ UNCHANGED <<attempts, result, celery_task_id, batch_size,
                   runs, stored, broker, execs, canceller, sweeper, used>>

Publish ==
    /\ api = "queued"
    /\ queue' = queue \cup {NewMessage(ApiTask)}
    /\ api' = "sent"
    /\ UNCHANGED <<jobRow, runs, stored, sent, revoked, execs, canceller, sweeper, used>>

\* apply_async raised; the broker may have accepted the message all the same.
PublishFails ==
    /\ api = "queued"
    /\ Fault
    /\ queue' \in {queue, queue \cup {NewMessage(ApiTask)}}
    /\ api' = "unsent"
    /\ UNCHANGED <<jobRow, runs, stored, sent, revoked, execs, canceller, sweeper>>

\* The targeted UPDATE: the task id and nothing else.
StoreTaskId ==
    /\ api = "sent"
    /\ celery_task_id' = ApiTask
    /\ api' = "done"
    /\ UNCHANGED <<status, attempts, result, batch_size, stale,
                   runs, stored, broker, execs, canceller, sweeper, used>>

MatchAnyStatus == TRUE                             \* mutant: no WHERE on status
StillQueued    == status = "queued"

\* UPDATE ... WHERE status = 'queued'
ReturnToPending ==
    /\ api = "unsent"
    /\ status' = IF StillQueued THEN "pending" ELSE status
    /\ api' = "done"
    /\ UNCHANGED <<attempts, result, celery_task_id, batch_size, stale,
                   runs, stored, broker, execs, canceller, sweeper, used>>

\* The API process dies between two commits.
ApiDies ==
    /\ api \in {"inserted", "queued", "sent", "unsent"}
    /\ Fault
    /\ api' = "done"
    /\ UNCHANGED <<jobRow, runs, stored, broker, execs, canceller, sweeper>>

-----------------------------------------------------------------------------
(* A worker process: _run_job around JobRunner.execute *)

\* _run_job is over, by a return or by a raise: only the message is left to
\* acknowledge, and the execution's own variables are gone.
Forget(w, next) ==
    /\ pc' = [pc EXCEPT ![w] = next]
    /\ seen' = [seen EXCEPT ![w] = NothingSeen]
    /\ mine' = [mine EXCEPT ![w] = 0]
    /\ trial' = [trial EXCEPT ![w] = NoTrial]
    /\ put' = [put EXCEPT ![w] = {}]
    /\ failure' = [failure EXCEPT ![w] = "none"]

Finish(w) == Forget(w, "finishing") /\ held' = held
Drop(w)   == Forget(w, "idle") /\ held' = [held EXCEPT ![w] = NoMessage]

OverrideOrInitial(m) == IF m.batch = 0 THEN InitialBatch ELSE m.batch   \* mutant
Override(m)          == IF m.batch = 0 THEN batch_size ELSE m.batch

\* Delivery, then _apply_batch_override in a transaction of its own.
Receive(w) ==
    /\ pc[w] = "idle"
    /\ \E m \in queue :
        /\ queue' = queue \ {m}
        /\ held' = [held EXCEPT ![w] = m]
        /\ batch_size' = Override(m)
    /\ pc' = [pc EXCEPT ![w] = "received"]
    /\ UNCHANGED <<status, attempts, result, celery_task_id, stale, runs, stored,
                   sent, revoked, seen, mine, trial, put, failure,
                   api, canceller, sweeper, used>>

DoneIgnoresCancel  == status = "succeeded" /\ result # 0       \* mutant
DoneIgnoresSuccess == status = "cancelled"                     \* mutant
Done               == status = "cancelled" \/ (status = "succeeded" /\ result # 0)

\* execute() loads the row; a finished or cancelled job is skipped.
Skip(w) ==
    /\ pc[w] = "received"
    /\ Done
    /\ Finish(w)
    /\ UNCHANGED <<jobRow, runs, stored, broker, api, canceller, sweeper, used>>

\* The session keeps the row it loaded, its params included, for the attempt.
Load(w) ==
    /\ pc[w] = "received"
    /\ ~Done
    /\ pc' = [pc EXCEPT ![w] = "loaded"]
    /\ seen' = [seen EXCEPT ![w] = [status |-> status, attempts |-> attempts]]
    /\ trial' = [trial EXCEPT ![w] = [at |-> "set", batch |-> batch_size]]
    /\ UNCHANGED <<jobRow, runs, stored, broker, held, mine, put, failure,
                   api, canceller, sweeper, used>>

Unconstrained(attempt) == TRUE                     \* mutant: no unique constraint
Unused(attempt)        == attempt \notin DOMAIN runs

\* One commit opens the attempt: the counter, the status and the run row.  The
\* status is written only if the loaded copy was not already running.
Start(w) ==
    LET attempt == seen[w].attempts + 1 IN
    /\ pc[w] = "loaded"
    /\ Unused(attempt)
    /\ attempts' = attempt
    /\ status' = IF seen[w].status = "running" THEN status ELSE "running"
    /\ stale' = FALSE
    /\ runs' = [a \in DOMAIN runs \cup {attempt} |->
                  IF a = attempt THEN "running" ELSE runs[a]]
    /\ mine' = [mine EXCEPT ![w] = attempt]
    /\ seen' = [seen EXCEPT ![w] = NothingSeen]
    /\ pc' = [pc EXCEPT ![w] = "running"]
    /\ UNCHANGED <<result, celery_task_id, batch_size, stored, broker, held,
                   trial, put, failure, api, canceller, sweeper, used>>

\* uq_runs_job_attempt rejects the run row, so the whole commit is rolled back.
\* The IntegrityError is outside execute()'s try and is not retryable.
StartConflicts(w) ==
    /\ pc[w] = "loaded"
    /\ ~Unused(seen[w].attempts + 1)
    /\ Finish(w)
    /\ UNCHANGED <<jobRow, runs, stored, broker, api, canceller, sweeper, used>>

Halve(batch) == IF batch <= 1 THEN 1 ELSE batch \div 2

MoveTrial(w, from, next) ==
    /\ pc[w] = "running"
    /\ trial[w].at = from
    /\ trial' = [trial EXCEPT ![w] = next]
    /\ UNCHANGED <<jobRow, runs, stored, broker, pc, held, seen, mine, put, failure,
                   api, canceller, sweeper, used>>

\* The model is loaded and the source downloaded: the loop begins with the row's size.
EnterLoop(w) == MoveTrial(w, "set", [at |-> "loop", batch |-> trial[w].batch])

\* Out of memory inside the loop: half the size in the same process, down to one.
ShrinkBatch(w) ==
    /\ "oom" \in Failures
    /\ trial[w].batch > 1
    /\ MoveTrial(w, "loop", [at |-> "loop", batch |-> Halve(trial[w].batch)])

LeaveLoop(w) == MoveTrial(w, "loop", [at |-> "over", batch |-> 0])

Loops(w) == EnterLoop(w) \/ ShrinkBatch(w) \/ LeaveLoop(w)

ResultKey(w, o) == o

\* The pipeline ran; its outputs are put one by one under the job's own keys.
PutOutput(w, o) ==
    /\ pc[w] = "running"
    /\ trial[w].at = "over"
    /\ o \notin put[w]
    /\ put' = [put EXCEPT ![w] = @ \cup {o}]
    /\ stored' = stored \cup {ResultKey(w, o)}
    /\ UNCHANGED <<jobRow, runs, broker, pc, held, seen, mine, trial, failure,
                   api, canceller, sweeper, used>>

SomeOutputs(w) == put[w] # {}                      \* mutant: done after the first
AllOutputs(w)  == put[w] = Outputs

Manifest(w) == mine[w]

\* The run row an execution closes is the one it opened.
CloseLatestRun(w, outcome) == [runs EXCEPT ![attempts] = outcome]      \* mutant
CloseRun(w, outcome)       == [runs EXCEPT ![mine[w]] = outcome]

\* _record_success: nothing is re-read, so it succeeds whatever the row says.
RecordSuccess(w) ==
    /\ pc[w] = "running"
    /\ trial[w].at = "over"
    /\ AllOutputs(w)
    /\ trial' = [trial EXCEPT ![w] = NoTrial]
    /\ status' = "succeeded"
    /\ result' = Manifest(w)
    /\ runs' = CloseRun(w, "succeeded")
    /\ pc' = [pc EXCEPT ![w] = "returning"]
    /\ UNCHANGED <<attempts, celery_task_id, batch_size, stale, stored, broker,
                   held, seen, mine, put, failure, api, canceller, sweeper, used>>

\* Memory that runs out in the loop leaves it only at a batch of one, after every
\* size from the row's down has failed; loading or storing may run out at any size.
OomEscapes(w) == trial[w].at = "loop" => trial[w].batch = 1

\* _record_failure: only a failure that will not be retried changes the status.
RecordFailure(w) ==
    /\ pc[w] = "running"
    /\ trial' = [trial EXCEPT ![w] = NoTrial]
    /\ \E kind \in Failures :
        /\ kind = "oom" => OomEscapes(w)
        /\ failure' = [failure EXCEPT ![w] = kind]
        /\ status' = IF kind \in Retryable THEN status ELSE "failed"
    /\ runs' = CloseRun(w, "failed")
    /\ pc' = [pc EXCEPT ![w] = "raised"]
    /\ UNCHANGED <<attempts, result, celery_task_id, batch_size, stale, stored,
                   broker, held, seen, mine, put, api, canceller, sweeper, used>>

\* The database rejects the start commit, _record_success or _record_failure:
\* an OperationalError reaches _run_job with nothing recorded.
CommitFails(w) ==
    /\ pc[w] \in {"loaded", "running"}
    /\ Fault
    /\ trial' = [trial EXCEPT ![w] = NoTrial]
    /\ failure' = [failure EXCEPT ![w] = "transient"]
    /\ pc' = [pc EXCEPT ![w] = "raised"]
    /\ UNCHANGED <<jobRow, runs, stored, broker, held, seen, mine, put,
                   api, canceller, sweeper>>

\* The soft time limit fires after _record_success, still inside _run_job's try.
TimeLimitOnReturn(w) ==
    /\ pc[w] = "returning"
    /\ "time_limit" \in Failures
    /\ failure' = [failure EXCEPT ![w] = "time_limit"]
    /\ pc' = [pc EXCEPT ![w] = "raised"]
    /\ UNCHANGED <<jobRow, runs, stored, broker, held, seen, mine, trial, put,
                   api, canceller, sweeper, used>>

Return(w) ==
    /\ pc[w] = "returning"
    /\ Finish(w)
    /\ UNCHANGED <<jobRow, runs, stored, broker, api, canceller, sweeper, used>>

NoRetryCap(w)  == TRUE                             \* mutant: MAX_RETRIES ignored
RetriesLeft(w) == held[w].retries + 1 <= MaxRetries

\* mark_permanently_failed: a timeout, or a retryable failure with no retry left.
MarkFailed(w) ==
    /\ pc[w] = "raised"
    /\ \/ failure[w] = "time_limit"
       \/ failure[w] \in Retryable /\ ~RetriesLeft(w)
    /\ status' = "failed"
    /\ Finish(w)
    /\ UNCHANGED <<attempts, result, celery_task_id, batch_size, stale, runs, stored,
                   broker, api, canceller, sweeper, used>>

RaisePermanent(w) ==
    /\ pc[w] = "raised"
    /\ failure[w] = "permanent"
    /\ Finish(w)
    /\ UNCHANGED <<jobRow, runs, stored, broker, api, canceller, sweeper, used>>

\* The message task.retry publishes: same task id, one retry more, and after an
\* OOM half the size this delivery began with, whatever its loop got down to: if the
\* pipeline ran out of memory, that half has failed already.
RetryMessage(w) ==
    [task    |-> held[w].task,
     retries |-> held[w].retries + 1,
     batch   |-> IF failure[w] = "oom"
                   THEN Halve(IF held[w].batch # 0 THEN held[w].batch ELSE batch_size)
                   ELSE 0]

MayRetry(w) == pc[w] = "raised" /\ failure[w] \in Retryable /\ RetriesLeft(w)

RetryForgotten(w) == queue                         \* mutant: nothing is published
RetryPublished(w) == queue \cup {RetryMessage(w)}

Retry(w) ==
    /\ MayRetry(w)
    /\ queue' = RetryPublished(w)
    /\ Finish(w)
    /\ UNCHANGED <<jobRow, runs, stored, sent, revoked, api, canceller, sweeper, used>>

\* task.retry cannot publish: Celery rejects the message without requeueing it.
RetryLost(w) ==
    /\ MayRetry(w)
    /\ Fault
    /\ Finish(w)
    /\ UNCHANGED <<jobRow, runs, stored, broker, api, canceller, sweeper>>

\* acks_late: the message goes only now, after a success or a failure.
Ack(w) ==
    /\ pc[w] = "finishing"
    /\ Drop(w)
    /\ UNCHANGED <<jobRow, runs, stored, broker, api, canceller, sweeper, used>>

\* reject_on_worker_lost, or the visibility timeout of a dead machine: the
\* message is delivered again with the retry count it had.
WorkerLost(w) ==
    /\ pc[w] # "idle"
    /\ Fault
    /\ Drop(w)
    /\ queue' = queue \cup {held[w]}
    /\ UNCHANGED <<jobRow, runs, stored, sent, revoked, api, canceller, sweeper>>

\* task_time_limit kills the child and acknowledges the message.
HardLimit(w) ==
    /\ pc[w] \in Executing
    /\ Fault
    /\ Drop(w)
    /\ UNCHANGED <<jobRow, runs, stored, broker, api, canceller, sweeper>>

-----------------------------------------------------------------------------
(* The broker *)

\* A broker failover restores an unacknowledged message whose task still runs.
RestoreCopy(w) ==
    /\ pc[w] # "idle"
    /\ used.copies < MaxCopies
    /\ used' = [used EXCEPT !.copies = @ + 1]
    /\ queue' = queue \cup {held[w]}
    /\ UNCHANGED <<jobRow, runs, stored, sent, revoked, execs, api, canceller, sweeper>>

LoseMessage ==
    /\ Fault
    /\ \E m \in queue : queue' = queue \ {m}
    /\ UNCHANGED <<jobRow, runs, stored, sent, revoked, execs, api, canceller, sweeper>>

\* A worker that got the revocation drops the task when it is delivered.
DiscardRevoked ==
    /\ \E m \in queue : m.task \in revoked /\ queue' = queue \ {m}
    /\ UNCHANGED <<jobRow, runs, stored, sent, revoked, execs,
                   api, canceller, sweeper, used>>

-----------------------------------------------------------------------------
(* The owner's cancel request *)

CancelLoad ==
    /\ canceller.pc = "idle"
    /\ used.cancels < MaxCancels
    /\ status \in JobStatus \ Terminal
    /\ canceller' = [pc |-> "loaded", task |-> celery_task_id]
    /\ used' = [used EXCEPT !.cancels = @ + 1]
    /\ UNCHANGED <<jobRow, runs, stored, broker, execs, api, sweeper>>

CancelCommit ==
    /\ canceller.pc = "loaded"
    /\ status' = "cancelled"
    /\ canceller' = [canceller EXCEPT !.pc = "committed"]
    /\ UNCHANGED <<attempts, result, celery_task_id, batch_size, stale,
                   runs, stored, broker, execs, api, sweeper, used>>

\* Best effort: only a task id the request loaded, and only if it gets through.
Revoke ==
    /\ canceller.pc = "committed"
    /\ revoked' \in {revoked, revoked \cup ({canceller.task} \ {NoTask})}
    /\ canceller' = [pc |-> "idle", task |-> NoTask]
    /\ UNCHANGED <<jobRow, runs, stored, queue, sent, execs, api, sweeper, used>>

-----------------------------------------------------------------------------
(* requeue_stuck *)

OnlyQueued    == {"queued"}                        \* mutant
StuckStatuses == {"queued", "running"}

\* A message or an execution will still do something for the job.
InHand == queue # {} \/ \E w \in Workers : pc[w] \in Executing

\* pending_jobs and the cutoff select the job.  MaxSweeps bounds the passes over a
\* job that is not lost: one that is lost is swept as often as it takes.
SweepScan ==
    /\ sweeper.pc = "idle"
    /\ InHand => used.sweeps < MaxSweeps
    /\ status \in StuckStatuses
    /\ stale
    /\ sweeper' = [pc |-> "scanned", status |-> status, task |-> NoTask]
    /\ used' = [used EXCEPT !.sweeps = IF @ <= MaxSweeps THEN @ + 1 ELSE @]
    /\ UNCHANGED <<jobRow, runs, stored, broker, execs, api, canceller>>

SweepCountsOnly ==                                  \* mutant: nothing is published
    /\ sweeper.pc = "scanned"
    /\ sweeper' = [pc |-> "sent", status |-> sweeper.status, task |-> sent]
    /\ UNCHANGED <<jobRow, runs, stored, broker, execs, api, canceller, used>>

SweepPublish ==
    /\ sweeper.pc = "scanned"
    /\ sent' = sent + 1
    /\ queue' = queue \cup {NewMessage(sent + 1)}
    /\ sweeper' = [pc |-> "sent", status |-> sweeper.status, task |-> sent + 1]
    /\ UNCHANGED <<jobRow, runs, stored, revoked, execs, api, canceller, used>>

\* session_scope's commit: queued is written only over a loaded "running".
SweepCommit ==
    /\ sweeper.pc = "sent"
    /\ celery_task_id' = sweeper.task
    /\ status' = IF sweeper.status = "queued" THEN status ELSE "queued"
    /\ sweeper' = [pc |-> "idle", status |-> "absent", task |-> NoTask]
    /\ UNCHANGED <<attempts, result, batch_size, stale, runs, stored,
                   broker, execs, api, canceller, used>>

\* The pass raises, for this job or a later one: its transaction is rolled back.
SweepFails ==
    /\ sweeper.pc \in {"scanned", "sent"}
    /\ Fault
    /\ sweeper' = [pc |-> "idle", status |-> "absent", task |-> NoTask]
    /\ UNCHANGED <<jobRow, runs, stored, broker, execs, api, canceller>>

\* The row's last timestamp falls behind the cutoff.  The hard time limit is not
\* longer than older_than_seconds, so no live execution has a stale started_at,
\* and no API request takes an hour.
CutoffPasses ==
    /\ ~stale
    /\ status \in {"queued", "running"}
    /\ api = "done"
    /\ \A w \in Workers : pc[w] \notin Live
    /\ stale' = TRUE
    /\ UNCHANGED <<status, attempts, result, celery_task_id, batch_size, runs, stored,
                   broker, execs, api, canceller, sweeper, used>>

-----------------------------------------------------------------------------

Api == InsertJob \/ MarkQueued \/ Publish \/ PublishFails \/ StoreTaskId
           \/ ReturnToPending \/ ApiDies

\* The steps a worker takes by itself once it holds a message.
Progress(w) ==
    \/ Skip(w) \/ Load(w) \/ Start(w) \/ StartConflicts(w)
    \/ Loops(w)
    \/ \E o \in Outputs : PutOutput(w, o)
    \/ RecordSuccess(w) \/ RecordFailure(w)
    \/ Return(w) \/ MarkFailed(w) \/ RaisePermanent(w) \/ Retry(w) \/ Ack(w)

Interrupt(w) ==
    \/ CommitFails(w) \/ TimeLimitOnReturn(w)
    \/ RetryLost(w) \/ WorkerLost(w) \/ HardLimit(w)

Worker(w) == Receive(w) \/ Progress(w) \/ Interrupt(w)

Broker == LoseMessage \/ DiscardRevoked \/ \E w \in Workers : RestoreCopy(w)

Owner == CancelLoad \/ CancelCommit \/ Revoke

Sweeper == SweepScan \/ SweepPublish \/ SweepCommit \/ SweepFails \/ CutoffPasses

Next == Api \/ Broker \/ Owner \/ Sweeper \/ \E w \in Workers : Worker(w)

Spec == Init /\ [][Next]_vars

\* Processes that are up keep running: the API finishes its request, a worker
\* takes messages and works on them, cancel requests return, and somebody runs
\* requeue_stuck often enough to find a job that has been stuck for the cutoff.
Fairness ==
    /\ WF_vars(Api)
    /\ \A w \in Workers : WF_vars(Receive(w)) /\ WF_vars(Progress(w))
    /\ WF_vars(CancelCommit) /\ WF_vars(Revoke)
    /\ WF_vars(CutoffPasses)
    /\ WF_vars(SweepScan) /\ WF_vars(SweepPublish) /\ WF_vars(SweepCommit)

FairSpec == Spec /\ Fairness

-----------------------------------------------------------------------------
(* What holds whatever happens *)

\* The attempts GET /jobs/{id} lists are 1..attempts: duplicate deliveries and
\* sweeps that start concurrently never skip a number, repeat one, or leave the
\* counter ahead of the run rows (execute's single start commit).
RunsContiguous == DOMAIN runs = 1 .. attempts

\* No two workers are ever on the same attempt, and the run row of a live
\* execution is still open: nobody else closes it.
AttemptsOwned ==
    \A w \in Workers : pc[w] = "running" =>
        /\ mine[w] \in DOMAIN runs /\ runs[mine[w]] = "running"
        /\ \A v \in Workers \ {w} : pc[v] = "running" => mine[v] # mine[w]

\* However deliveries, sweeps and crashes race on the start commit, the attempts of
\* the job are numbered without a gap and each has one execution that may close it.
AttemptsKept == RunsContiguous /\ AttemptsOwned

\* A manifest is only ever served for an attempt that succeeded and whose
\* outputs are all in storage, even when later attempts overwrite or fail.
ResultBacked ==
    result # 0 =>
        /\ result \in DOMAIN runs /\ runs[result] = "succeeded"
        /\ stored = Outputs

\* GET /jobs/{id}/result never finds a succeeded job without a manifest.
SucceededHasResult == status = "succeeded" => result # 0

\* A succeeded job has something to serve, and whatever is served was stored in full
\* by an attempt that succeeded, also after an attempt that failed or was repeated.
ResultsServed == SucceededHasResult /\ ResultBacked

\* The dispatch-failure UPDATE never sends back to pending a job that a worker
\* has already started, although apply_async may raise after the broker took
\* the message (_dispatch's WHERE status = 'queued').
PendingNeverStarted == status = "pending" => attempts = 0

\* The work a job can cost: each dispatch may use MaxRetries + 1 attempts, and so
\* may each redelivery, since a worker can be lost after it published the retry
\* and before it acknowledged the message.  Nothing else adds an attempt.
AttemptsBounded ==
    attempts <= (MaxRetries + 1) * (sent + used.copies + used.faults)

\* The job was cancelled and nothing that read the row before that is still
\* about to write it.
CancelSettled ==
    /\ status = "cancelled"
    /\ api = "done"
    /\ sweeper.pc = "idle"
    /\ \A w \in Workers : pc[w] \notin Live \cup {"loaded"}

\* A cancel that lands while no attempt is in flight is honoured for good: no
\* queued message, retry, redelivery or later sweep brings the job back.
CancelHonoured == [][CancelSettled => CancelSettled']_vars

\* The lifecycle implements the ledger of attempts.
Ledger == INSTANCE RunLedger WITH count <- attempts, history <- runs, published <- result
LedgerKept == Ledger!Spec

-----------------------------------------------------------------------------
(* What holds when only some of the hazards occur *)

\* A job delivered by one message only stays succeeded, although that message is
\* delivered again after a crash at any step: execute() finds the manifest.  A
\* sweep, a restored copy, or a retry published just before a crash may undo it,
\* and so may a cancel that read the row earlier or the soft time limit.
SuccessIsFinal ==
    [][/\ status = "succeeded"
       /\ sent <= 1 /\ used.copies = 0 /\ used.cancels = 0 /\ "time_limit" \notin Failures
       /\ MaxRetries = 0 \/ used.faults = 0
       => status' = "succeeded"]_vars

\* As long as its one message is never delivered twice, the row's batch size only
\* falls, although it travels from an attempt to the next in a message, and no attempt
\* runs with a larger one than the row shows, although each halves a copy of its own
\* (tasks.py: GET /jobs/{id} shows what the job is being run with).  That an attempt
\* begins below the sizes the one before it tried is not said, and is not so.
BatchNeverGrows ==
    [][used.faults = 0 /\ used.copies = 0 /\ sent <= 1 =>
        /\ batch_size' <= batch_size
        /\ \A w \in Workers : trial'[w].batch <= batch_size']_vars

\* Without a fault, a job that is not terminal is in somebody's hands: the
\* request that dispatches it, the broker, or a worker.  (A cancelled job whose
\* attempt starts all the same can lose its retry to the revocation, and a sweep
\* can write queued over a success; only the next sweep helps those.)
NeverStranded ==
    /\ status \in {"pending", "queued", "running"}
    /\ used.faults = 0 /\ used.cancels = 0 /\ used.sweeps = 0
    =>
        \/ api # "done"
        \/ queue # {}
        \/ \E w \in Workers : pc[w] \in Executing

\* Whatever a worker, the broker or a sweep loses or writes over, the job is terminal
\* in the end and stays so, as long as requeue_stuck keeps being run; only a job whose
\* dispatch failed stays pending, since no sweep selects it.
StuckJobsFinish == <>[](status \in Terminal \cup {"pending"})

-----------------------------------------------------------------------------
(* What the documentation says and the code does not do *)

\* docs/api.md: a running job that is cancelled "is signalled and stops at its
\* next progress checkpoint".
RunningCancelIsFinal ==
    [][status = "cancelled" /\ (\E w \in Workers : pc[w] = "running")
        => status' = "cancelled"]_vars
=============================================================================
