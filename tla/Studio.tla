-------------------------------- MODULE Studio --------------------------------
(***************************************************************************)
(* The studio page of the web client in one browser tab: the batch and its *)
(* submit loops, re-runs, the polling of the active item's job, and the    *)
(* fetching of a finished job's outputs into blob URLs.                    *)
(*                                                                         *)
(* A step is one event of the tab's event loop: a click, or the answer of  *)
(* a request, with the render and the effects it sets off.                 *)
(***************************************************************************)
EXTENDS Naturals, Sequences, SequencesExt

CONSTANTS
    Files,          \* files the user can drop
    Drops,          \* what one drop may hold: some files, each a File object of its own
    Kinds,          \* output kinds fetched for a job
    Preferred,      \* the kind the result view shows
    MaxJobs,        \* bound: jobs the server creates
    MaxClicks,      \* bound: drops, re-runs, clears and changes of the active item
    MaxErrors       \* bound: requests that fail

ASSUME StudioAssumption ==
    /\ Preferred \in Kinds
    /\ \A files \in Drops :
         /\ files \in Seq(Files) /\ files # <<>>
         /\ \A i, j \in DOMAIN files : files[i] = files[j] => i = j
    /\ MaxJobs \in Nat /\ MaxClicks \in Nat /\ MaxErrors \in Nat

VARIABLES
    server_jobs,    \* the server's jobs, by id: their file and status
    mounted,        \* the page is open
    batch,          \* useState batch: file, whether it has its asset, job id
    active,         \* activeIndex
    busy,
    loops,          \* calls of submit() that wait for an answer
    reruns,         \* calls of reprocess() that wait for an answer
    poll,           \* useJobPolling's effect: its job id and where it is
    seen,           \* useJobPolling's job: id and status last answered
    poll_error,     \* useJobPolling's error: the job whose poll failed, or none
    asking,         \* the job whose result was asked for and is waited for
    fetches,        \* runs of the effect that wait for their job's outputs
    result,         \* the job result is of
    outputs,        \* outputUrls: the job whose output each kind's URL is of
    shown,          \* resultUrl as memoised: whose output, and revoked since
    clicks, errors,
    latest,         \* history: each file's job, as its requests answered
    cleared,        \* history: Clear was pressed with a request in flight
    overlapped,     \* history: a job was left while its outputs were fetched
    leaked          \* history: a URL that was not revoked was overwritten

server  == <<server_jobs>>
counted == <<clicks, errors>>
queue   == <<batch, active, busy, loops, reruns, latest, cleared>>
polling == <<poll, seen, poll_error>>
media   == <<asking, fetches, result, outputs, shown, overlapped, leaked>>
pageVars    == <<server, mounted, queue, polling, media, counted>>

-----------------------------------------------------------------------------

NoJob    == 0
JobId    == 1 .. MaxJobs
AnyJob   == JobId \cup {NoJob}
Terminal == {"succeeded", "failed", "cancelled"}
Status   == Terminal \cup {"pending", "queued", "running"}

QueuedItem == [file : Files, asset : BOOLEAN, job : AnyJob]
SubmitLoop == [items : Seq(QueuedItem), i : Nat]
Rerun      == [index : Nat, file : Files]
FetchRun   == [job : JobId, todo : SUBSET Kinds, live : BOOLEAN]
JobRow     == [file : Files, status : Status]
JobSeen    == [id : JobId, status : Status]
Nothing    == [id |-> NoJob, status |-> "none"]
NoOutputs  == [k \in Kinds |-> NoJob]
NoUrl      == [job |-> NoJob, revoked |-> FALSE]

PageTypeOK ==
    /\ server_jobs \in Seq(JobRow) /\ Len(server_jobs) <= MaxJobs
    /\ mounted \in BOOLEAN /\ busy \in BOOLEAN
    /\ batch \in Seq(QueuedItem) /\ active \in Nat
    /\ loops \in Seq(SubmitLoop)
    /\ reruns \in Seq(Rerun)
    /\ poll \in [job : AnyJob, pc : {"off", "request", "stopped"}]
    /\ poll.pc = "off" <=> poll.job = NoJob
    /\ seen \in JobSeen \cup {Nothing}
    /\ poll_error \in AnyJob
    /\ asking \in AnyJob
    /\ fetches \in Seq(FetchRun)
    /\ result \in AnyJob /\ outputs \in [Kinds -> AnyJob]
    /\ shown \in [job : AnyJob, revoked : BOOLEAN]
    /\ clicks \in 0 .. MaxClicks /\ errors \in 0 .. MaxErrors
    /\ latest \in [Files -> AnyJob]
    /\ cleared \in BOOLEAN /\ overlapped \in BOOLEAN /\ leaked \in BOOLEAN

PageInit ==
    /\ server_jobs = <<>> /\ mounted = TRUE
    /\ batch = <<>> /\ active = 1 /\ busy = FALSE /\ loops = <<>> /\ reruns = <<>>
    /\ poll = [job |-> NoJob, pc |-> "off"] /\ seen = Nothing /\ poll_error = NoJob
    /\ asking = NoJob /\ fetches = <<>> /\ result = NoJob /\ outputs = NoOutputs /\ shown = NoUrl
    /\ clicks = 0 /\ errors = 0
    /\ latest = [f \in Files |-> NoJob]
    /\ cleared = FALSE /\ overlapped = FALSE /\ leaked = FALSE

Fails     == errors < MaxErrors /\ errors' = errors + 1
Click     == clicks < MaxClicks /\ clicks' = clicks + 1
InFlight  == loops # <<>> \/ reruns # <<>>
JobAt(b, a) == IF a \in DOMAIN b THEN b[a].job ELSE NoJob

-----------------------------------------------------------------------------
(* The effects a render sets off *)

Fetch(j) == [job |-> j, todo |-> Kinds, live |-> TRUE]

\* The cleanup of the output effect, and its next run if that asks for job j: an answer
\* to the result asked for is ignored from now on, outputs on their way still land.
Refetch(j) ==
    /\ asking' = j
    /\ fetches' = [i \in DOMAIN fetches |-> [fetches[i] EXCEPT !.live = FALSE]]
    /\ overlapped' = (overlapped \/ fetches # <<>>)

following == <<asking, fetches, result, overlapped>>

\* setJob(s): the output effect depends on the job's id and status.
Follow(s) ==
    /\ seen' = s
    /\ IF s = seen THEN UNCHANGED following
       ELSE IF s.status = "succeeded" THEN Refetch(s.id) /\ UNCHANGED result
       ELSE Refetch(NoJob) /\ result' = NoJob

WatchAny(j) ==
    /\ poll' = [job |-> j, pc |-> "request"]
    /\ UNCHANGED <<seen, poll_error, following>>

\* The polling effect depends on the active item's job id.
Watch(j) ==
    IF j = poll.job THEN UNCHANGED <<polling, following>>
    ELSE IF j = NoJob
    THEN poll' = [job |-> NoJob, pc |-> "off"] /\ poll_error' = NoJob /\ Follow(Nothing)
    ELSE WatchAny(j)

SetBatch(b, a) == batch' = b /\ active' = a /\ Watch(JobAt(b, a))

KeepOutputs == UNCHANGED <<outputs, shown>>

RevokeOutputs ==
    /\ outputs' = NoOutputs
    /\ shown' = [shown EXCEPT !.revoked = @ \/ \E k \in Kinds : outputs[k] # NoJob]

-----------------------------------------------------------------------------
(* Dropping, submitting, re-running, clearing *)

Release == busy' = FALSE

NewItem(f) == [file |-> f, asset |-> FALSE, job |-> NoJob]

OnFiles ==
    /\ mounted /\ batch = <<>> /\ Click
    /\ \E files \in Drops :
         LET items == [i \in DOMAIN files |-> NewItem(files[i])]
         IN  SetBatch(items, 1) /\ loops' = Append(loops, [items |-> items, i |-> 1])
    /\ busy' = TRUE
    /\ latest' = [f \in Files |-> NoJob]
    /\ UNCHANGED <<server, mounted, reruns, cleared, outputs, shown, leaked, errors>>

\* setBatch([...updated]) with the loop's own copy; its finally clears busy.
Proceed(l, items) ==
    LET loop == loops[l] IN
    /\ IF loop.i < Len(items)
       THEN loops' = [loops EXCEPT ![l] = [items |-> items, i |-> loop.i + 1]]
            /\ UNCHANGED busy
       ELSE loops' = RemoveAt(loops, l) /\ Release
    /\ IF mounted THEN SetBatch(items, active)
       ELSE UNCHANGED <<batch, active, polling, following>>
    /\ UNCHANGED <<mounted, reruns, cleared, outputs, shown, leaked, clicks>>

\* How _dispatch leaves a job: it is pending if it could not be sent to the broker.
Dispatched == {"queued", "pending"}
NewJob(f, s) == Append(server_jobs, [file |-> f, status |-> s])

Submitted(l) ==
    LET loop == loops[l]
        id   == Len(server_jobs) + 1
        file == loop.items[loop.i].file IN
    /\ id \in JobId
    /\ \E s \in Dispatched : server_jobs' = NewJob(file, s)
    /\ latest' = [latest EXCEPT ![file] = id]
    /\ Proceed(l, [loop.items EXCEPT ![loop.i] = [file |-> file, asset |-> TRUE, job |-> id]])
    /\ UNCHANGED errors

\* An item whose upload or submission failed keeps neither asset nor job.
SubmitFails(l) ==
    /\ IF Len(server_jobs) = MaxJobs THEN UNCHANGED errors ELSE Fails
    /\ Proceed(l, loops[l].items)
    /\ UNCHANGED <<server, latest>>

Running == seen.status \in Status \ Terminal
CanReprocess == ~busy /\ ~Running

Reprocess ==
    /\ mounted /\ active \in DOMAIN batch /\ batch[active].asset /\ CanReprocess /\ Click
    /\ reruns' = Append(reruns, [index |-> active, file |-> batch[active].file])
    /\ busy' = TRUE
    /\ UNCHANGED <<server, mounted, batch, active, loops, latest, cleared, polling, media, errors>>

AtActive(r) == active
AtIndex(r)  == r.index

\* The server answers with a new job or, for settings it has seen, the old one.
Reprocessed(n) ==
    LET r == reruns[n]
        place == AtIndex(r) IN
    /\ \E id \in {j \in DOMAIN server_jobs : server_jobs[j].file = r.file} \cup {Len(server_jobs) + 1} :
         /\ id \in JobId
         /\ IF id \in DOMAIN server_jobs THEN UNCHANGED server
            ELSE \E s \in Dispatched : server_jobs' = NewJob(r.file, s)
         /\ latest' = [latest EXCEPT ![r.file] = id]
         /\ IF mounted
            THEN SetBatch([i \in DOMAIN batch |->
                             IF i = place THEN [batch[i] EXCEPT !.job = id] ELSE batch[i]], active)
            ELSE UNCHANGED <<batch, active, polling, following>>
    /\ reruns' = RemoveAt(reruns, n) /\ Release
    /\ UNCHANGED <<mounted, loops, cleared, outputs, shown, leaked, counted>>

ReprocessFails(n) ==
    /\ Fails
    /\ reruns' = RemoveAt(reruns, n) /\ Release
    /\ UNCHANGED <<server, mounted, batch, active, loops, latest, cleared, polling, media, clicks>>

SetActiveIndex(i) ==
    /\ mounted /\ i \in DOMAIN batch /\ i # active /\ Click
    /\ SetBatch(batch, i)
    /\ UNCHANGED <<server, mounted, busy, loops, reruns, latest, cleared, outputs, shown, leaked,
                   errors>>

\* Clear leaves activeIndex, busy and the requests in flight as they are.
Clear ==
    /\ mounted /\ batch # <<>> /\ Click
    /\ RevokeOutputs
    /\ batch' = <<>> /\ UNCHANGED active
    /\ cleared' = (cleared \/ InFlight)
    /\ poll' = [job |-> NoJob, pc |-> "off"] /\ poll_error' = NoJob
    /\ seen' = Nothing /\ Refetch(NoJob) /\ result' = NoJob
    /\ UNCHANGED <<server, mounted, busy, loops, reruns, latest, leaked, errors>>

\* Signing out closes the page: the cleanups of every effect run.
Unmount ==
    /\ mounted /\ mounted' = FALSE
    /\ RevokeOutputs
    /\ batch' = <<>> /\ active' = 1 /\ busy' = FALSE
    /\ poll' = [job |-> NoJob, pc |-> "off"] /\ poll_error' = NoJob
    /\ seen' = Nothing /\ Refetch(NoJob) /\ result' = NoJob
    /\ UNCHANGED <<server, loops, reruns, latest, cleared, leaked, counted>>

-----------------------------------------------------------------------------
(* Polling and fetching *)

StopsOnceQueued(status) == status \in Terminal \cup {"queued"}
StopsAt(status) == status \in Terminal

Polled ==
    /\ poll.pc = "request"
    /\ LET now == server_jobs[poll.job].status IN
       /\ poll' = IF StopsAt(now) THEN [poll EXCEPT !.pc = "stopped"] ELSE poll
       /\ Follow([id |-> poll.job, status |-> now])
    /\ UNCHANGED <<server, mounted, queue, poll_error, outputs, shown, leaked, counted>>

PollFails ==
    /\ poll.pc = "request" /\ Fails
    /\ poll' = [poll EXCEPT !.pc = "stopped"] /\ poll_error' = poll.job
    /\ UNCHANGED <<server, mounted, queue, seen, media, clicks>>

ResultArrives ==
    /\ asking # NoJob
    /\ result' = asking /\ asking' = NoJob
    /\ fetches' = Append(fetches, Fetch(asking))
    /\ RevokeOutputs
    /\ UNCHANGED <<server, mounted, queue, polling, overlapped, leaked, counted>>

ResultFails ==
    /\ asking # NoJob /\ Fails
    /\ asking' = NoJob
    /\ UNCHANGED <<server, mounted, queue, polling, fetches, result, outputs, shown, overlapped, leaked,
                   clicks>>

ShownOf(urls) == [job |-> urls[Preferred], revoked |-> FALSE]

\* The map is written whether or not the effect was cancelled meanwhile; the last
\* output of one that was not bumps urlVersion, and the view looks at the map again.
OutputArrives(e, k) ==
    LET f == fetches[e]
        urls == [outputs EXCEPT ![k] = f.job]
        last == f.todo = {k} IN
    /\ k \in f.todo
    /\ outputs' = urls
    /\ leaked' = (leaked \/ outputs[k] # NoJob)
    /\ fetches' = IF last THEN RemoveAt(fetches, e)
                  ELSE [fetches EXCEPT ![e].todo = @ \ {k}]
    /\ shown' = IF last /\ f.live THEN ShownOf(urls) ELSE shown
    /\ UNCHANGED <<server, mounted, queue, polling, asking, result, overlapped, counted>>

\* Promise.all rejects: the version is not bumped, whatever still arrives.
OutputFails(e, k) ==
    LET f == fetches[e] IN
    /\ k \in f.todo /\ Fails
    /\ fetches' = IF f.todo = {k} THEN RemoveAt(fetches, e)
                  ELSE [fetches EXCEPT ![e].todo = @ \ {k}, ![e].live = FALSE]
    /\ UNCHANGED <<server, mounted, queue, polling, asking, result, outputs, shown, overlapped, leaked, clicks>>

\* Choosing another background recomputes the memo from the map as it is.
SetBackgroundMode ==
    /\ mounted /\ shown # ShownOf(outputs)
    /\ shown' = ShownOf(outputs)
    /\ UNCHANGED <<server, mounted, queue, polling, following, outputs, leaked, counted>>

-----------------------------------------------------------------------------

\* A worker moves a job on, or never comes to it: nothing collects a pending job, and
\* a worker may be lost.
JobMoves(j) ==
    /\ \E s \in Status :
         /\ <<server_jobs[j].status, s>> \in {<<"queued", "running">>, <<"running", "succeeded">>,
                                       <<"running", "failed">>}
         /\ server_jobs' = [server_jobs EXCEPT ![j].status = s]
    /\ UNCHANGED <<mounted, queue, polling, media, counted>>

\* A sweep that read the job earlier, or the message of a failed one delivered again.
JobRequeued(j) ==
    /\ server_jobs[j].status \in {"running", "succeeded", "failed"} /\ Fails
    /\ server_jobs' = [server_jobs EXCEPT ![j].status = "queued"]
    /\ UNCHANGED <<mounted, queue, polling, media, clicks>>

Answers ==
    \/ \E l \in DOMAIN loops : Submitted(l) \/ SubmitFails(l)
    \/ \E n \in DOMAIN reruns : Reprocessed(n) \/ ReprocessFails(n)

Fetched ==
    \/ ResultArrives \/ ResultFails
    \/ \E e \in DOMAIN fetches, k \in Kinds : OutputArrives(e, k) \/ OutputFails(e, k)

User ==
    \/ OnFiles \/ Reprocess \/ Clear \/ Unmount \/ SetBackgroundMode
    \/ \E i \in DOMAIN batch : SetActiveIndex(i)

Server == \E j \in DOMAIN server_jobs : JobMoves(j) \/ JobRequeued(j)

PageNext == User \/ Answers \/ Polled \/ PollFails \/ Fetched \/ Server

\* Every request is answered in the end or fails.  No job need ever end.
Fairness ==
    WF_pageVars(Answers) /\ WF_pageVars(Polled \/ PollFails) /\ WF_pageVars(Fetched)

PageSpec == PageInit /\ [][PageNext]_pageVars /\ Fairness

-----------------------------------------------------------------------------

\* Unless Clear is pressed with a request in flight, an item of the batch shows
\* the job its latest request was answered with, and that job is of its own file:
\* no submit loop overwrites a re-run and no re-run lands on another item.
BatchKeepsJobs ==
    ~cleared => \A i \in DOMAIN batch :
        /\ batch[i].job = latest[batch[i].file]
        /\ batch[i].job # NoJob => server_jobs[batch[i].job].file = batch[i].file

\* Every part of the page's state has its shape, and the batch its own jobs.
PageIsSound == PageTypeOK /\ BatchKeepsJobs

\* Unless a job is left while its outputs are being fetched, the URLs of the page
\* are of one job, that of the result panel when it shows one, and none of them
\* was overwritten without being revoked.
OneJobsOutputs ==
    ~overlapped =>
        /\ ~leaked
        /\ \A k \in Kinds : outputs[k] \in {NoJob, result} \/ result = NoJob
        /\ \A k, h \in Kinds : outputs[k] # NoJob /\ outputs[h] # NoJob => outputs[k] = outputs[h]

\* Once every output of the job in the result panel has arrived, the picture shown
\* is that job's and its URL still works.
ShowsItsResult ==
    (~overlapped /\ asking = NoJob /\ fetches = <<>> /\ result # NoJob /\ errors = 0)
        => shown = [job |-> result, revoked |-> FALSE]

\* The result panel and its pictures are of one job, and once they are all there the
\* one shown works.  After a Clear, or while they are on their way, it may be revoked.
OutputsAgree == OneJobsOutputs /\ ShowsItsResult

\* A job that ends, and stays so, while the page follows it is shown as ended, unless
\* the polling of this very job fails or the user looks at another one: however often
\* the page has asked by then, and whatever polls of other jobs said or failed with.
PollSettles ==
    \A j \in JobId :
        (poll.job = j /\ server_jobs[j].status \in Terminal) ~>
            \/ poll.job # j \/ (poll.pc = "stopped" /\ poll_error = j)
            \/ seen.id = j /\ seen.status \in Terminal
            \/ server_jobs[j].status \notin Terminal

\* busy does not outlive the requests it stands for: once it is set it is cleared.
BusyEnds == busy ~> ~busy

\* Whatever the page waits for ends: the polling of a job and the requests of a click.
WaitingEnds == PollSettles /\ BusyEnds
=============================================================================
