----------------------------- MODULE ClientProofs -----------------------------
(***************************************************************************)
(* Proofs about the client's way to a job: the Studio page that submits    *)
(* and follows jobs, and Submission with the RateLimiter in front of it,   *)
(* for every drop of files, every set of requests, keys, identities and    *)
(* processes, and every capacity, cost and rate of refill.                 *)
(***************************************************************************)
EXTENDS Studio, Submission, TLAPS

(* The studio page *)

\* What RemoveAt leaves of a sequence.
LEMMA Removed ==
    ASSUME NEW S, NEW s \in Seq(S), NEW i \in DOMAIN s
    PROVE  /\ RemoveAt(s, i) \in Seq(S) /\ Len(RemoveAt(s, i)) = Len(s) - 1
           /\ \A j \in DOMAIN RemoveAt(s, i) : \E k \in DOMAIN s : RemoveAt(s, i)[j] = s[k]
  <1> DEFINE a == SubSeq(s, 1, i - 1)
             b == SubSeq(s, i + 1, Len(s))
  <1>1. i \in 1 .. Len(s) /\ Len(s) \in Nat  OBVIOUS
  <1>2. /\ a \in Seq(S) /\ Len(a) = i - 1 /\ \A k \in 1 .. i - 1 : a[k] = s[k]
    BY <1>1
  <1>3. /\ b \in Seq(S) /\ Len(b) = Len(s) - i /\ \A k \in 1 .. Len(s) - i : b[k] = s[i + k]
    BY <1>1
  <1>4. RemoveAt(s, i) = a \o b  BY DEF RemoveAt
  <1> HIDE DEF a, b
  <1>5. a \o b \in Seq(S) /\ Len(a \o b) = Len(s) - 1  BY <1>1, <1>2, <1>3
  <1>6. ASSUME NEW j \in DOMAIN (a \o b)
        PROVE  \E k \in DOMAIN s : (a \o b)[j] = s[k]
    <2>0. j \in 1 .. Len(s) - 1  BY <1>5, <1>6
    <2>1. CASE j <= Len(a)
      <3>1. (a \o b)[j] = a[j] /\ j \in 1 .. i - 1  BY <2>0, <2>1, <1>2, <1>3, <1>1
      <3> QED  BY <3>1, <1>1, <1>2
    <2>2. CASE j > Len(a)
      <3>1. (a \o b)[j] = b[j - Len(a)] /\ j - Len(a) \in 1 .. Len(s) - i
        BY <2>0, <2>2, <1>2, <1>3, <1>1
      <3>2. PICK m \in 1 .. Len(s) - i : (a \o b)[j] = b[m]  BY <3>1
      <3>3. (a \o b)[j] = s[i + m] /\ i + m \in 1 .. Len(s)  BY <3>2, <1>1, <1>3
      <3> QED  BY <3>3
    <2> QED  BY <2>1, <2>2, <2>0, <1>2
  <1> QED  BY <1>4, <1>5, <1>6

-----------------------------------------------------------------------------
(* Types *)

\* PageTypeOK in the parts that one action writes together.
SeenOrNothing == JobSeen \cup {Nothing}

ServerTyped == server_jobs \in Seq(JobRow) /\ Len(server_jobs) <= MaxJobs
QueueTyped ==
    /\ mounted \in BOOLEAN /\ busy \in BOOLEAN /\ cleared \in BOOLEAN
    /\ batch \in Seq(QueuedItem) /\ active \in Nat
    /\ loops \in Seq(SubmitLoop) /\ reruns \in Seq(Rerun)
    /\ latest \in [Files -> AnyJob]
PollTyped ==
    /\ poll \in [job : AnyJob, pc : {"off", "request", "stopped"}]
    /\ poll.pc = "off" <=> poll.job = NoJob
    /\ seen \in SeenOrNothing /\ poll_error \in AnyJob
FollowTyped ==
    /\ asking \in AnyJob /\ fetches \in Seq(FetchRun)
    /\ result \in AnyJob /\ overlapped \in BOOLEAN
UrlsTyped ==
    /\ outputs \in [Kinds -> AnyJob] /\ shown \in [job : AnyJob, revoked : BOOLEAN]
    /\ leaked \in BOOLEAN
CountTyped == clicks \in 0 .. MaxClicks /\ errors \in 0 .. MaxErrors

LEMMA TypesSplit ==
    PageTypeOK <=> ServerTyped /\ QueueTyped /\ PollTyped /\ FollowTyped /\ UrlsTyped /\ CountTyped

    BY DEF PageTypeOK, ServerTyped, QueueTyped, PollTyped, FollowTyped, UrlsTyped, CountTyped, SeenOrNothing

LEMMA TypesJoin ==
    ASSUME ServerTyped', QueueTyped', PollTyped', FollowTyped', UrlsTyped', CountTyped'
    PROVE  PageTypeOK'

    BY DEF PageTypeOK, ServerTyped, QueueTyped, PollTyped, FollowTyped, UrlsTyped, CountTyped, SeenOrNothing

LEMMA RefetchTyped ==
    ASSUME PageTypeOK, NEW j \in AnyJob, Refetch(j), result' \in {result, NoJob}
    PROVE  FollowTyped'
  <1>1. FollowTyped  BY TypesSplit DEF PageTypeOK
  <1>2. fetches' \in Seq(FetchRun)
    <2>1. ASSUME NEW i \in 1 .. Len(fetches)
          PROVE  [fetches[i] EXCEPT !.live = FALSE] \in FetchRun
      <3>1. fetches[i] \in FetchRun  BY <1>1 DEF FollowTyped
      <3>2. \A f \in FetchRun : [f EXCEPT !.live = FALSE] \in FetchRun  BY DEF FetchRun
      <3> QED  BY <3>1, <3>2
    <2>2. fetches' = [i \in 1 .. Len(fetches) |-> [fetches[i] EXCEPT !.live = FALSE]]
      BY <1>1 DEF Refetch, FollowTyped
    <2>3. fetches' \in [1 .. Len(fetches) -> FetchRun]  BY <2>1, <2>2
    <2> QED  BY <1>1, <2>3 DEF FollowTyped
  <1> QED  BY <1>1, <1>2 DEF Refetch, FollowTyped, AnyJob

LEMMA FollowKeepsTypes ==
    ASSUME PageTypeOK, NEW s \in SeenOrNothing, Follow(s)
    PROVE  seen' = s /\ FollowTyped'
  <1>2. CASE s = seen
    BY <1>2 DEF Follow, following, PageTypeOK, FollowTyped
  <1>3. CASE s # seen /\ s.status = "succeeded"
    <2>1. s.id \in AnyJob  BY DEF SeenOrNothing, JobSeen, Nothing, AnyJob
    <2> QED  BY RefetchTyped, <1>3, <2>1 DEF Follow
  <1>4. CASE s # seen /\ s.status # "succeeded"
    <2>1. NoJob \in AnyJob  BY DEF AnyJob
    <2> QED  BY RefetchTyped, <1>4, <2>1 DEF Follow
  <1> QED  BY <1>2, <1>3, <1>4 DEF Follow

LEMMA WatchKeepsTypes ==
    ASSUME PageTypeOK, NEW j \in AnyJob, Watch(j)
    PROVE  PollTyped' /\ FollowTyped' /\ poll'.job = j
  <1>0. /\ poll \in [job : AnyJob, pc : {"off", "request", "stopped"}]
        /\ poll.pc = "off" <=> poll.job = NoJob
        /\ seen \in SeenOrNothing /\ poll_error \in AnyJob
        /\ asking \in AnyJob /\ fetches \in Seq(FetchRun) /\ result \in AnyJob /\ overlapped \in BOOLEAN
    BY DEF PageTypeOK, SeenOrNothing
  <1>1. CASE j = poll.job
    <2>1. UNCHANGED <<polling, following>>  BY <1>1 DEF Watch
    <2> QED  BY <1>0, <1>1, <2>1 DEF PollTyped, FollowTyped, polling, following
  <1>2. CASE j # poll.job /\ j = NoJob
    <2>1. poll' = [job |-> NoJob, pc |-> "off"] /\ poll_error' = NoJob /\ Follow(Nothing)
      BY <1>2 DEF Watch
    <2>2. seen' = Nothing /\ FollowTyped'  BY <2>1, FollowKeepsTypes DEF SeenOrNothing
    <2> QED  BY <1>2, <2>1, <2>2 DEF PollTyped, SeenOrNothing, AnyJob
  <1>3. CASE j # poll.job /\ j # NoJob
    <2>1. WatchAny(j)  BY <1>3 DEF Watch
    <2>2. poll' = [job |-> j, pc |-> "request"] /\ UNCHANGED <<seen, poll_error, following>>
      BY <2>1 DEF WatchAny
    <2> QED  BY <1>0, <1>3, <2>2 DEF PollTyped, FollowTyped, following
  <1> QED  BY <1>1, <1>2, <1>3

LEMMA SetBatchKeepsTypes ==
    ASSUME PageTypeOK, NEW b \in Seq(QueuedItem), NEW a \in Nat, SetBatch(b, a)
    PROVE  batch' = b /\ active' = a /\ PollTyped' /\ FollowTyped'
  <1>1. JobAt(b, a) \in AnyJob
    <2>1. CASE a \in DOMAIN b
      <3>1. b[a] \in QueuedItem  BY <2>1
      <3> QED  BY <2>1, <3>1 DEF JobAt, QueuedItem
    <2>2. CASE a \notin DOMAIN b  BY <2>2 DEF JobAt, AnyJob
    <2> QED  BY <2>1, <2>2
  <1> QED  BY <1>1, WatchKeepsTypes DEF SetBatch

LEMMA ProceedKeepsTypes ==
    ASSUME PageTypeOK, NEW l \in DOMAIN loops, NEW items \in Seq(QueuedItem), Proceed(l, items)
    PROVE  /\ batch' \in Seq(QueuedItem) /\ active' = active /\ busy' \in BOOLEAN
           /\ loops' \in Seq(SubmitLoop) /\ PollTyped' /\ FollowTyped'
  <1>0. QueueTyped /\ PollTyped /\ FollowTyped  BY TypesSplit DEF PageTypeOK
  <1>1. loops[l] \in SubmitLoop /\ loops[l].i \in Nat
    <2>1. loops[l] \in SubmitLoop  BY <1>0 DEF QueueTyped
    <2> QED  BY <2>1 DEF SubmitLoop
  <1>2. loops' \in Seq(SubmitLoop) /\ busy' \in BOOLEAN
    <2>1. CASE loops[l].i < Len(items)
      <3>1. [items |-> items, i |-> loops[l].i + 1] \in SubmitLoop  BY <1>1 DEF SubmitLoop
      <3>2. loops' = [loops EXCEPT ![l] = [items |-> items, i |-> loops[l].i + 1]] /\ busy' = busy
        BY <2>1 DEF Proceed
      <3> QED  BY <1>0, <3>1, <3>2 DEF QueueTyped
    <2>2. CASE ~(loops[l].i < Len(items))
      <3>1. loops' = RemoveAt(loops, l) /\ busy' = FALSE  BY <2>2 DEF Proceed, Release
      <3>2. loops \in Seq(SubmitLoop)  BY <1>0 DEF QueueTyped
      <3> QED  BY <3>1, <3>2, Removed
    <2> QED  BY <2>1, <2>2
  <1>3. CASE mounted
    <2>1. SetBatch(items, active) /\ active \in Nat  BY <1>0, <1>3 DEF Proceed, QueueTyped
    <2> QED  BY <1>2, <2>1, SetBatchKeepsTypes
  <1>4. CASE ~mounted
    <2>1. UNCHANGED <<batch, active, polling, following>>  BY <1>4 DEF Proceed
    <2> QED  BY <1>0, <1>2, <2>1 DEF polling, following, QueueTyped, PollTyped, FollowTyped
  <1> QED  BY <1>3, <1>4

LEMMA NewJobTyped ==
    ASSUME PageTypeOK, NEW f \in Files, NEW s \in Dispatched, Len(server_jobs) + 1 \in JobId
    PROVE  /\ NewJob(f, s) \in Seq(JobRow) /\ Len(NewJob(f, s)) = Len(server_jobs) + 1
           /\ Len(server_jobs) + 1 <= MaxJobs
           /\ NewJob(f, s)[Len(server_jobs) + 1].file = f
           /\ \A j \in DOMAIN server_jobs : NewJob(f, s)[j] = server_jobs[j]
  <1>1. ServerTyped /\ MaxJobs \in Nat  BY TypesSplit, StudioAssumption DEF PageTypeOK
  <1>2. [file |-> f, status |-> s] \in JobRow  BY DEF JobRow, Status, Dispatched
  <1> QED  BY <1>1, <1>2 DEF NewJob, ServerTyped, JobId

-----------------------------------------------------------------------------
(* Every job id on the page is of a job the server has *)

ItemsKnown(items, n) == \A i \in DOMAIN items : items[i].job <= n
LoopSound(loop, n)   == loop.i \in DOMAIN loop.items /\ ItemsKnown(loop.items, n)

BatchKnown  == ItemsKnown(batch, Len(server_jobs))
LoopsKnown  == \A l \in DOMAIN loops : LoopSound(loops[l], Len(server_jobs))
PollKnown   == poll.job <= Len(server_jobs)
LatestKnown ==
    \A f \in Files : /\ latest[f] <= Len(server_jobs)
                     /\ latest[f] # NoJob => server_jobs[latest[f]].file = f

PageKnown == BatchKnown /\ LoopsKnown /\ PollKnown /\ LatestKnown

LEMMA PolledTyped ==
    ASSUME PageTypeOK, PageKnown, poll.pc = "request"
    PROVE  /\ poll.job \in DOMAIN server_jobs /\ poll.job \in JobId
           /\ server_jobs[poll.job].status \in Status
  <1>1. ServerTyped /\ PollTyped  BY TypesSplit DEF PageTypeOK
  <1>2. poll.job \in JobId  BY <1>1 DEF PollTyped, AnyJob
  <1>3. poll.job \in DOMAIN server_jobs  BY <1>1, <1>2 DEF PageKnown, PollKnown, ServerTyped, JobId
  <1>4. server_jobs[poll.job] \in JobRow  BY <1>1, <1>3 DEF ServerTyped
  <1> QED  BY <1>2, <1>3, <1>4 DEF JobRow

\* What an answer of the submit loop leaves the loop with.
LEMMA AnsweredItem ==
    ASSUME PageTypeOK, PageKnown, NEW l \in DOMAIN loops, Len(server_jobs) + 1 \in JobId
    PROVE  LET loop == loops[l]
               id == Len(server_jobs) + 1
               file == loop.items[loop.i].file
               item == [file |-> file, asset |-> TRUE, job |-> id]
               items == [loop.items EXCEPT ![loop.i] = item]
           IN  /\ file \in Files /\ loop.items \in Seq(QueuedItem) /\ loop.i \in DOMAIN loop.items
               /\ items \in Seq(QueuedItem) /\ DOMAIN items = DOMAIN loop.items
               /\ Len(items) = Len(loop.items)
               /\ \A i \in DOMAIN items : items[i] = IF i = loop.i THEN item ELSE loop.items[i]
  <1> DEFINE loop == loops[l]
             id == Len(server_jobs) + 1
             file == loop.items[loop.i].file
             item == [file |-> file, asset |-> TRUE, job |-> id]
  <1>1. loop \in SubmitLoop /\ LoopSound(loop, Len(server_jobs))
    BY TypesSplit DEF PageTypeOK, QueueTyped, PageKnown, LoopsKnown
  <1>2. loop.items \in Seq(QueuedItem) /\ loop.i \in DOMAIN loop.items
    BY <1>1 DEF SubmitLoop, LoopSound
  <1>3. loop.items[loop.i] \in QueuedItem  BY <1>2
  <1>4. file \in Files  BY <1>3 DEF QueuedItem
  <1>5. item \in QueuedItem  BY <1>4 DEF QueuedItem, AnyJob
  <1> HIDE DEF loop, item, file
  <1> QED  BY <1>2, <1>4, <1>5 DEF loop, item, file

LEMMA SubmittedTyped ==
    ASSUME PageTypeOK, PageKnown, NEW l \in DOMAIN loops, Submitted(l)
    PROVE  PageTypeOK'
  <1>0. /\ ServerTyped /\ QueueTyped /\ UrlsTyped /\ CountTyped
    BY TypesSplit DEF PageTypeOK
  <1> DEFINE loop == loops[l]
             id == Len(server_jobs) + 1
             file == loop.items[loop.i].file
             items == [loop.items EXCEPT ![loop.i] = [file |-> file, asset |-> TRUE, job |-> id]]
  <1>1. PICK s \in Dispatched :
        /\ id \in JobId /\ server_jobs' = NewJob(file, s) /\ latest' = [latest EXCEPT ![file] = id]
        /\ Proceed(l, items) /\ UNCHANGED errors
    BY DEF Submitted
  <1>2. file \in Files /\ items \in Seq(QueuedItem)  BY <1>1, AnsweredItem
  <1> HIDE DEF items, file
  <1>3. /\ batch' \in Seq(QueuedItem) /\ active' = active /\ busy' \in BOOLEAN
        /\ loops' \in Seq(SubmitLoop) /\ PollTyped' /\ FollowTyped'
    BY <1>1, <1>2, ProceedKeepsTypes
  <1>4. UNCHANGED <<mounted, reruns, cleared, outputs, shown, leaked, clicks>>
    BY <1>1 DEF Proceed
  <1>5. ServerTyped'  BY <1>1, <1>2, NewJobTyped DEF ServerTyped
  <1>6. latest' \in [Files -> AnyJob]  BY <1>0, <1>1, <1>2 DEF QueueTyped, AnyJob
  <1> QED  BY <1>0, <1>1, <1>3, <1>4, <1>5, <1>6, TypesJoin DEF QueueTyped, UrlsTyped, CountTyped

LEMMA FailsTyped ==
    ASSUME PageTypeOK, Fails
    PROVE  errors' \in 0 .. MaxErrors /\ errors' = errors + 1 /\ errors' # 0
  BY StudioAssumption DEF PageTypeOK, Fails

LEMMA ClickTyped ==
    ASSUME PageTypeOK, Click
    PROVE  clicks' \in 0 .. MaxClicks
  BY StudioAssumption DEF PageTypeOK, Click

LEMMA SubmitFailsTyped ==
    ASSUME PageTypeOK, NEW l \in DOMAIN loops, SubmitFails(l)
    PROVE  PageTypeOK'
  <1>0. ServerTyped /\ QueueTyped /\ UrlsTyped /\ CountTyped  BY TypesSplit DEF PageTypeOK
  <1>1. loops[l] \in SubmitLoop  BY <1>0 DEF QueueTyped
  <1>2. loops[l].items \in Seq(QueuedItem)  BY <1>1 DEF SubmitLoop
  <1>3. errors' \in 0 .. MaxErrors  BY <1>0, FailsTyped DEF SubmitFails, CountTyped
  <1>4. Proceed(l, loops[l].items) /\ UNCHANGED <<server, latest>>  BY DEF SubmitFails
  <1>5. /\ batch' \in Seq(QueuedItem) /\ active' = active /\ busy' \in BOOLEAN
        /\ loops' \in Seq(SubmitLoop) /\ PollTyped' /\ FollowTyped'
    BY <1>2, <1>4, ProceedKeepsTypes
  <1>6. UNCHANGED <<mounted, reruns, cleared, outputs, shown, leaked, clicks>>
    BY <1>4 DEF Proceed
  <1> QED  BY <1>0, <1>3, <1>4, <1>5, <1>6, TypesJoin
           DEF ServerTyped, QueueTyped, UrlsTyped, CountTyped, server

LEMMA OnFilesTyped ==
    ASSUME PageTypeOK, OnFiles
    PROVE  PageTypeOK'
  <1>0. ServerTyped /\ QueueTyped /\ UrlsTyped /\ CountTyped  BY TypesSplit DEF PageTypeOK
  <1>1. PICK files \in Drops :
          LET items == [i \in DOMAIN files |-> NewItem(files[i])]
          IN  SetBatch(items, 1) /\ loops' = Append(loops, [items |-> items, i |-> 1])
    BY DEF OnFiles
  <1> DEFINE items == [i \in DOMAIN files |-> NewItem(files[i])]
  <1>2. files \in Seq(Files)  BY StudioAssumption DEF PageTypeOK
  <1>3. items \in Seq(QueuedItem)
    <2>1. \A i \in 1 .. Len(files) : NewItem(files[i]) \in QueuedItem
      BY <1>2 DEF NewItem, QueuedItem, AnyJob
    <2>2. items \in [1 .. Len(files) -> QueuedItem]  BY <1>2, <2>1
    <2> QED  BY <1>2, <2>2
  <1> HIDE DEF items
  <1>4. SetBatch(items, 1) /\ loops' = Append(loops, [items |-> items, i |-> 1])
    BY <1>1 DEF items
  <1>5. batch' = items /\ active' = 1 /\ PollTyped' /\ FollowTyped'
    BY <1>3, <1>4, SetBatchKeepsTypes
  <1>6. [items |-> items, i |-> 1] \in SubmitLoop  BY <1>3 DEF SubmitLoop
  <1>7. loops' \in Seq(SubmitLoop)  BY <1>0, <1>4, <1>6 DEF QueueTyped
  <1>8. /\ busy' = TRUE /\ latest' = [f \in Files |-> NoJob] /\ clicks' \in 0 .. MaxClicks
        /\ UNCHANGED <<server, mounted, reruns, cleared, outputs, shown, leaked, errors>>
    BY ClickTyped DEF OnFiles
  <1>9. latest' \in [Files -> AnyJob]  BY <1>8 DEF AnyJob
  <1> QED  BY <1>0, <1>3, <1>5, <1>7, <1>8, <1>9, TypesJoin
           DEF ServerTyped, QueueTyped, UrlsTyped, CountTyped, server

LEMMA ReprocessedTyped ==
    ASSUME PageTypeOK, NEW n \in DOMAIN reruns, Reprocessed(n)
    PROVE  PageTypeOK'
  <1>0. ServerTyped /\ QueueTyped /\ PollTyped /\ FollowTyped /\ UrlsTyped /\ CountTyped
    BY TypesSplit DEF PageTypeOK
  <1> DEFINE r == reruns[n]
             rebatch(id) == [i \in DOMAIN batch |->
                               IF i = AtIndex(r) THEN [batch[i] EXCEPT !.job = id] ELSE batch[i]]
  <1>1. PICK id \in {j \in DOMAIN server_jobs : server_jobs[j].file = r.file} \cup {Len(server_jobs) + 1} :
          /\ id \in JobId
          /\ IF id \in DOMAIN server_jobs THEN UNCHANGED server
             ELSE \E s \in Dispatched : server_jobs' = NewJob(r.file, s)
          /\ latest' = [latest EXCEPT ![r.file] = id]
          /\ IF mounted THEN SetBatch(rebatch(id), active)
             ELSE UNCHANGED <<batch, active, polling, following>>
    BY DEF Reprocessed
  <1>2. r \in Rerun  BY <1>0 DEF QueueTyped
  <1>3. r.file \in Files  BY <1>2 DEF Rerun
  <1>4. ServerTyped'
    <2>1. CASE id \in DOMAIN server_jobs  BY <1>0, <1>1, <2>1 DEF ServerTyped, server
    <2>2. CASE id \notin DOMAIN server_jobs
      <3>1. PICK s \in Dispatched : id = Len(server_jobs) + 1 /\ server_jobs' = NewJob(r.file, s)
        BY <1>1, <2>2
      <3> QED  BY <3>1, <1>1, <1>3, NewJobTyped DEF ServerTyped
    <2> QED  BY <2>1, <2>2
  <1>5. latest' \in [Files -> AnyJob]  BY <1>0, <1>1, <1>3 DEF QueueTyped, AnyJob
  <1>6. rebatch(id) \in Seq(QueuedItem)
    <2>1. batch \in Seq(QueuedItem)  BY <1>0 DEF QueueTyped
    <2>2. \A q \in QueuedItem : [q EXCEPT !.job = id] \in QueuedItem
      BY <1>1 DEF QueuedItem, AnyJob
    <2>3. rebatch(id) \in [1 .. Len(batch) -> QueuedItem]  BY <2>1, <2>2
    <2> QED  BY <2>1, <2>3
  <1> HIDE DEF rebatch
  <1>7. /\ batch' \in Seq(QueuedItem) /\ active' \in Nat /\ PollTyped' /\ FollowTyped'
    <2>1. CASE mounted
      BY <1>0, <1>1, <1>6, <2>1, SetBatchKeepsTypes DEF QueueTyped
    <2>2. CASE ~mounted
      BY <1>0, <1>1, <2>2 DEF QueueTyped, PollTyped, FollowTyped, polling, following
    <2> QED  BY <2>1, <2>2
  <1>8. /\ reruns' = RemoveAt(reruns, n) /\ busy' = FALSE
        /\ UNCHANGED <<mounted, loops, cleared, outputs, shown, leaked, counted>>
    BY DEF Reprocessed, Release
  <1>9. reruns' \in Seq(Rerun)  BY <1>0, <1>8, Removed DEF QueueTyped
  <1> QED  BY <1>0, <1>4, <1>5, <1>7, <1>8, <1>9, TypesJoin
           DEF QueueTyped, UrlsTyped, CountTyped, counted

LEMMA UrlsRevoked ==
    ASSUME PageTypeOK, RevokeOutputs, UNCHANGED leaked
    PROVE  UrlsTyped'
  <1>1. UrlsTyped  BY TypesSplit DEF PageTypeOK
  <1>2. outputs' \in [Kinds -> AnyJob]
    <2>1. outputs' = [k \in Kinds |-> NoJob]  BY DEF RevokeOutputs, NoOutputs
    <2>2. NoJob \in AnyJob  BY DEF AnyJob
    <2> QED  BY <2>1, <2>2
  <1>3. shown' \in [job : AnyJob, revoked : BOOLEAN]
    BY <1>1 DEF RevokeOutputs, UrlsTyped
  <1> QED  BY <1>1, <1>2, <1>3 DEF UrlsTyped

LEMMA ClosedTyped ==
    ASSUME PageTypeOK, Clear \/ Unmount
    PROVE  PageTypeOK'
  <1>0. ServerTyped /\ QueueTyped /\ CountTyped  BY TypesSplit DEF PageTypeOK
  <1>1. /\ RevokeOutputs /\ Refetch(NoJob) /\ result' = NoJob /\ UNCHANGED leaked
        /\ poll' = [job |-> NoJob, pc |-> "off"] /\ poll_error' = NoJob /\ seen' = Nothing
    BY DEF Clear, Unmount
  <1>2. UrlsTyped'  BY <1>1, UrlsRevoked
  <1>3. FollowTyped'  BY <1>1, RefetchTyped DEF AnyJob
  <1>4. PollTyped'  BY <1>1 DEF PollTyped, SeenOrNothing, AnyJob
  <1>5. /\ batch' = <<>> /\ active' \in {active, 1} /\ busy' \in {busy, FALSE}
        /\ mounted' \in BOOLEAN /\ cleared' \in BOOLEAN
        /\ UNCHANGED <<server, loops, reruns, latest, errors>>
    BY <1>0 DEF Clear, Unmount, QueueTyped, counted
  <1>6. clicks' \in 0 .. MaxClicks
    BY <1>0, ClickTyped DEF Clear, Unmount, counted, CountTyped
  <1>7. QueueTyped'
    <2>1. batch' \in Seq(QueuedItem) /\ active' \in Nat  BY <1>0, <1>5 DEF QueueTyped
    <2>2. busy' \in BOOLEAN  BY <1>0, <1>5 DEF QueueTyped
    <2> QED  BY <1>0, <1>5, <2>1, <2>2 DEF QueueTyped
  <1>8. ServerTyped' /\ CountTyped'
    BY <1>0, <1>5, <1>6 DEF ServerTyped, CountTyped, server
  <1> QED  BY <1>2, <1>3, <1>4, <1>7, <1>8, TypesJoin

LEMMA OutputTyped ==
    ASSUME PageTypeOK, NEW e \in DOMAIN fetches, NEW k \in Kinds,
           OutputArrives(e, k) \/ OutputFails(e, k)
    PROVE  PageTypeOK'
  <1>0. ServerTyped /\ QueueTyped /\ PollTyped /\ FollowTyped /\ UrlsTyped /\ CountTyped
    BY TypesSplit DEF PageTypeOK
  <1> DEFINE f == fetches[e]
             urls == [outputs EXCEPT ![k] = f.job]
  <1>1. f \in FetchRun  BY <1>0 DEF FollowTyped
  <1>2. urls \in [Kinds -> AnyJob]  BY <1>0, <1>1 DEF UrlsTyped, FetchRun, AnyJob
  <1>3. ShownOf(urls) \in [job : AnyJob, revoked : BOOLEAN]
    <2> HIDE DEF urls
    <2> QED  BY <1>2, StudioAssumption DEF ShownOf, PageTypeOK
  <1>4. UrlsTyped'
    <2> HIDE DEF urls
    <2>1. CASE OutputArrives(e, k)
      <3>1. outputs' = urls /\ leaked' = (leaked \/ outputs[k] # NoJob) /\ shown' \in {shown, ShownOf(urls)}
        BY <2>1 DEF OutputArrives, urls
      <3> QED  BY <1>0, <1>2, <1>3, <3>1 DEF UrlsTyped
    <2>2. CASE OutputFails(e, k)
      BY <1>0, <2>2 DEF OutputFails, UrlsTyped
    <2> QED  BY <2>1, <2>2
  <1>5. fetches' \in Seq(FetchRun)
    <2>1. \/ fetches' = RemoveAt(fetches, e)
          \/ fetches' = [fetches EXCEPT ![e].todo = @ \ {k}]
          \/ fetches' = [fetches EXCEPT ![e].todo = @ \ {k}, ![e].live = FALSE]
      BY DEF OutputArrives, OutputFails
    <2>2. RemoveAt(fetches, e) \in Seq(FetchRun)  BY <1>0, Removed DEF FollowTyped
    <2>3. /\ [f EXCEPT !.todo = @ \ {k}] \in FetchRun
          /\ [f EXCEPT !.todo = @ \ {k}, !.live = FALSE] \in FetchRun
      <3>1. \A g \in FetchRun : /\ [g EXCEPT !.todo = @ \ {k}] \in FetchRun
                                /\ [g EXCEPT !.todo = @ \ {k}, !.live = FALSE] \in FetchRun
        BY DEF FetchRun
      <3> HIDE DEF f
      <3> QED  BY <1>1, <3>1
    <2>4. fetches \in Seq(FetchRun)  BY <1>0 DEF FollowTyped
    <2>5. \A g \in FetchRun : [fetches EXCEPT ![e] = g] \in Seq(FetchRun)  BY <2>4
    <2>6. /\ [fetches EXCEPT ![e].todo = @ \ {k}] = [fetches EXCEPT ![e] = [f EXCEPT !.todo = @ \ {k}]]
          /\ [fetches EXCEPT ![e].todo = @ \ {k}, ![e].live = FALSE]
               = [fetches EXCEPT ![e] = [f EXCEPT !.todo = @ \ {k}, !.live = FALSE]]
      <3>1. f = fetches[e]  OBVIOUS
      <3>2. DOMAIN fetches = 1 .. Len(fetches)  BY <2>4
      <3> QED  BY <2>4, <1>1, <3>2 DEF FetchRun
    <2> QED  BY <2>1, <2>2, <2>3, <2>5, <2>6
  <1>6. errors' \in 0 .. MaxErrors
    BY <1>0, FailsTyped DEF OutputArrives, OutputFails, counted, CountTyped
  <1>7. UNCHANGED <<server, mounted, queue, polling, asking, result, overlapped, clicks>>
    BY DEF OutputArrives, OutputFails, counted
  <1> QED  BY <1>0, <1>4, <1>5, <1>6, <1>7, TypesJoin
           DEF ServerTyped, QueueTyped, PollTyped, FollowTyped, CountTyped, server, queue, polling

LEMMA ServerStepTyped ==
    ASSUME PageTypeOK, NEW j \in DOMAIN server_jobs, JobMoves(j) \/ JobRequeued(j)
    PROVE  PageTypeOK'
  <1>0. ServerTyped /\ QueueTyped /\ PollTyped /\ FollowTyped /\ UrlsTyped /\ CountTyped
    BY TypesSplit DEF PageTypeOK
  <1>1. PICK s \in Status : server_jobs' = [server_jobs EXCEPT ![j].status = s]
    BY DEF JobMoves, JobRequeued, Status
  <1>2. server_jobs[j] \in JobRow  BY <1>0 DEF ServerTyped
  <1>3. [server_jobs[j] EXCEPT !.status = s] \in JobRow  BY <1>2 DEF JobRow
  <1>4. ServerTyped'  BY <1>0, <1>1, <1>3 DEF ServerTyped
  <1>5. errors' \in 0 .. MaxErrors
    BY <1>0, FailsTyped DEF JobMoves, JobRequeued, counted, CountTyped
  <1>6. UNCHANGED <<mounted, queue, polling, media, clicks>>
    BY DEF JobMoves, JobRequeued, counted
  <1> QED  BY <1>0, <1>4, <1>5, <1>6, TypesJoin
           DEF QueueTyped, PollTyped, FollowTyped, UrlsTyped, CountTyped, queue, polling, media

LEMMA TypeStep ==
    ASSUME PageTypeOK, PageKnown, [PageNext]_pageVars
    PROVE  PageTypeOK'
  <1>0. ServerTyped /\ QueueTyped /\ PollTyped /\ FollowTyped /\ UrlsTyped /\ CountTyped
    BY TypesSplit DEF PageTypeOK
  <1>1. CASE OnFiles  BY <1>1, OnFilesTyped
  <1>2. CASE Clear \/ Unmount  BY <1>2, ClosedTyped
  <1>3. CASE Reprocess
    <2>1. batch[active] \in QueuedItem /\ active \in Nat
      BY <1>0, <1>3 DEF Reprocess, QueueTyped
    <2>2. [index |-> active, file |-> batch[active].file] \in Rerun
      BY <2>1 DEF Rerun, QueuedItem
    <2>3. /\ reruns' = Append(reruns, [index |-> active, file |-> batch[active].file])
          /\ busy' = TRUE /\ clicks' \in 0 .. MaxClicks
          /\ UNCHANGED <<server, mounted, batch, active, loops, latest, cleared, polling, media, errors>>
      BY <1>3, ClickTyped DEF Reprocess
    <2>4. reruns' \in Seq(Rerun)  BY <1>0, <2>2, <2>3 DEF QueueTyped
    <2> QED  BY <1>0, <2>3, <2>4, TypesJoin
             DEF ServerTyped, QueueTyped, PollTyped, FollowTyped, UrlsTyped, CountTyped, server,
                 polling, media
  <1>4. CASE SetBackgroundMode
    <2>1. outputs[Preferred] \in AnyJob
      BY <1>0, StudioAssumption DEF UrlsTyped, PageTypeOK
    <2>2. ShownOf(outputs) \in [job : AnyJob, revoked : BOOLEAN]  BY <2>1 DEF ShownOf
    <2>3. shown' = ShownOf(outputs)
          /\ UNCHANGED <<server, mounted, queue, polling, following, outputs, leaked, counted>>
      BY <1>4 DEF SetBackgroundMode
    <2> QED  BY <1>0, <2>2, <2>3, TypesJoin
             DEF ServerTyped, QueueTyped, PollTyped, FollowTyped, UrlsTyped, CountTyped,
                 server, queue, polling, following, counted
  <1>5. ASSUME NEW i \in DOMAIN batch, SetActiveIndex(i) PROVE PageTypeOK'
    <2>1. SetBatch(batch, i) /\ batch \in Seq(QueuedItem) /\ i \in Nat
      BY <1>0, <1>5 DEF SetActiveIndex, QueueTyped
    <2>2. batch' = batch /\ active' = i /\ PollTyped' /\ FollowTyped'
      BY <2>1, SetBatchKeepsTypes
    <2>3. /\ clicks' \in 0 .. MaxClicks
          /\ UNCHANGED <<server, mounted, busy, loops, reruns, latest, cleared, outputs, shown, leaked, errors>>
      BY <1>5, ClickTyped DEF SetActiveIndex
    <2> QED  BY <1>0, <2>1, <2>2, <2>3, TypesJoin
             DEF ServerTyped, QueueTyped, UrlsTyped, CountTyped, server
  <1>6. ASSUME NEW l \in DOMAIN loops, Submitted(l) \/ SubmitFails(l) PROVE PageTypeOK'
    BY <1>6, SubmittedTyped, SubmitFailsTyped
  <1>7. ASSUME NEW n \in DOMAIN reruns, Reprocessed(n) PROVE PageTypeOK'
    BY <1>7, ReprocessedTyped
  <1>8. ASSUME NEW n \in DOMAIN reruns, ReprocessFails(n) PROVE PageTypeOK'
    <2>1. /\ errors' \in 0 .. MaxErrors /\ reruns' = RemoveAt(reruns, n) /\ busy' = FALSE
          /\ UNCHANGED <<server, mounted, batch, active, loops, latest, cleared, polling, media, clicks>>
      BY <1>8, FailsTyped DEF ReprocessFails, Release
    <2>2. reruns' \in Seq(Rerun)  BY <1>0, <2>1, Removed DEF QueueTyped
    <2> QED  BY <1>0, <2>1, <2>2, TypesJoin
             DEF ServerTyped, QueueTyped, PollTyped, FollowTyped, UrlsTyped, CountTyped, server,
                 polling, media
  <1>9. CASE Polled
    <2>1. poll.job \in JobId /\ server_jobs[poll.job].status \in Status
      BY <1>9, PolledTyped DEF Polled
    <2> DEFINE s == [id |-> poll.job, status |-> server_jobs[poll.job].status]
    <2>2. s \in SeenOrNothing  BY <2>1 DEF SeenOrNothing, JobSeen
    <2>3. /\ Follow(s) /\ poll' \in {poll, [poll EXCEPT !.pc = "stopped"]}
          /\ UNCHANGED <<server, mounted, queue, poll_error, outputs, shown, leaked, counted>>
      BY <1>9 DEF Polled
    <2>4. seen' = s /\ FollowTyped'  BY <2>2, <2>3, FollowKeepsTypes
    <2>5. poll.pc = "request"  BY <1>9 DEF Polled
    <2>6. PollTyped'
      <3>1. /\ poll' \in [job : AnyJob, pc : {"off", "request", "stopped"}]
            /\ poll'.pc # "off" /\ poll'.job = poll.job
        BY <1>0, <2>3, <2>5 DEF PollTyped
      <3> QED  BY <1>0, <2>2, <2>3, <2>4, <2>5, <3>1 DEF PollTyped
    <2> QED  BY <1>0, <2>3, <2>4, <2>6, TypesJoin
             DEF ServerTyped, QueueTyped, UrlsTyped, CountTyped, server, queue, counted
  <1>10. CASE PollFails
    <2>1. /\ poll' = [poll EXCEPT !.pc = "stopped"] /\ poll_error' = poll.job /\ poll.pc = "request"
          /\ errors' \in 0 .. MaxErrors /\ UNCHANGED <<server, mounted, queue, seen, media, clicks>>
      BY <1>10, FailsTyped DEF PollFails
    <2>2. PollTyped'
      <3>1. /\ poll' \in [job : AnyJob, pc : {"off", "request", "stopped"}]
            /\ poll'.pc # "off" /\ poll'.job = poll.job
        BY <1>0, <2>1 DEF PollTyped
      <3> QED  BY <1>0, <2>1, <3>1 DEF PollTyped
    <2> QED  BY <1>0, <2>1, <2>2, TypesJoin
             DEF ServerTyped, QueueTyped, FollowTyped, UrlsTyped, CountTyped, server, queue, media
  <1>11. CASE ResultArrives
    <2>1. /\ asking \in JobId /\ result' = asking /\ asking' = NoJob
          /\ fetches' = Append(fetches, Fetch(asking)) /\ RevokeOutputs
          /\ UNCHANGED <<server, mounted, queue, polling, overlapped, leaked, counted>>
      BY <1>0, <1>11 DEF ResultArrives, FollowTyped, AnyJob
    <2>2. UrlsTyped'  BY <2>1, UrlsRevoked
    <2>3. Fetch(asking) \in FetchRun  BY <2>1 DEF Fetch, FetchRun
    <2>4. FollowTyped'  BY <1>0, <2>1, <2>3 DEF FollowTyped, AnyJob
    <2> QED  BY <1>0, <2>1, <2>2, <2>4, TypesJoin
             DEF ServerTyped, QueueTyped, PollTyped, CountTyped, server, queue, polling, counted
  <1>12. CASE ResultFails
    <2>1. /\ asking' = NoJob /\ errors' \in 0 .. MaxErrors
          /\ UNCHANGED <<server, mounted, queue, polling, fetches, result, outputs, shown, overlapped,
                         leaked, clicks>>
      BY <1>12, FailsTyped DEF ResultFails
    <2> QED  BY <1>0, <2>1, TypesJoin
             DEF ServerTyped, QueueTyped, PollTyped, FollowTyped, UrlsTyped, CountTyped, AnyJob,
                 server, queue, polling
  <1>13. ASSUME NEW e \in DOMAIN fetches, NEW k \in Kinds, OutputArrives(e, k) \/ OutputFails(e, k)
         PROVE  PageTypeOK'
    BY <1>13, OutputTyped
  <1>14. ASSUME NEW j \in DOMAIN server_jobs, JobMoves(j) \/ JobRequeued(j) PROVE PageTypeOK'
    BY <1>14, ServerStepTyped
  <1>15. CASE UNCHANGED pageVars

      BY <1>0, <1>15, TypesJoin DEF ServerTyped, QueueTyped, PollTyped, FollowTyped, UrlsTyped, CountTyped,
       pageVars, server, queue, polling, media, counted
  <1> QED
    BY <1>1, <1>2, <1>3, <1>4, <1>5, <1>6, <1>7, <1>8, <1>9, <1>10, <1>11, <1>12, <1>13, <1>14,
              <1>15 DEF PageNext, User, Answers, Fetched, Server
-----------------------------------------------------------------------------
(* The jobs the page knows are the server's *)

JobsGrow ==
    /\ Len(server_jobs') >= Len(server_jobs)
    /\ \A j \in DOMAIN server_jobs : server_jobs'[j].file = server_jobs[j].file

LEMMA MoreJobs ==
    ASSUME PageTypeOK, JobsGrow
    PROVE  \A j \in Int : j <= Len(server_jobs) => j <= Len(server_jobs')
  BY TypesSplit DEF PageTypeOK, ServerTyped, JobsGrow

LEMMA ItemsStayKnown ==
    ASSUME PageTypeOK, JobsGrow, NEW items \in Seq(QueuedItem), ItemsKnown(items, Len(server_jobs))
    PROVE  ItemsKnown(items, Len(server_jobs'))
  <1>1. ASSUME NEW i \in DOMAIN items PROVE items[i].job \in Int
    <2>1. items[i] \in QueuedItem  OBVIOUS
    <2> QED  BY <2>1 DEF QueuedItem, AnyJob, JobId, NoJob
  <1> QED  BY <1>1, MoreJobs DEF ItemsKnown

LEMMA LoopsStaySound ==
    ASSUME PageTypeOK, PageKnown, JobsGrow, NEW l \in DOMAIN loops
    PROVE  loops[l] \in SubmitLoop /\ LoopSound(loops[l], Len(server_jobs'))
  <1>1. loops[l] \in SubmitLoop /\ LoopSound(loops[l], Len(server_jobs))
    BY TypesSplit DEF PageTypeOK, QueueTyped, PageKnown, LoopsKnown
  <1>2. loops[l].items \in Seq(QueuedItem)  BY <1>1 DEF SubmitLoop
  <1> QED  BY <1>1, <1>2, ItemsStayKnown DEF LoopSound

LEMMA StillKnown ==
    ASSUME PageTypeOK, PageKnown, JobsGrow
    PROVE  /\ UNCHANGED batch => BatchKnown'
           /\ UNCHANGED loops => LoopsKnown'
           /\ UNCHANGED poll => PollKnown'
           /\ UNCHANGED latest => LatestKnown'
  <1>0. /\ ServerTyped /\ QueueTyped /\ PollTyped
        /\ BatchKnown /\ PollKnown /\ LatestKnown
    BY TypesSplit DEF PageTypeOK, PageKnown
  <1>1. ASSUME UNCHANGED batch PROVE BatchKnown'
    BY <1>0, <1>1, ItemsStayKnown DEF BatchKnown, QueueTyped
  <1>2. ASSUME UNCHANGED loops PROVE LoopsKnown'
    BY <1>2, LoopsStaySound DEF LoopsKnown
  <1>3. ASSUME UNCHANGED poll PROVE PollKnown'
    BY <1>0, <1>3, MoreJobs DEF PollTyped, AnyJob, JobId, NoJob, PollKnown
  <1>4. ASSUME UNCHANGED latest PROVE LatestKnown'
    <2>1. ASSUME NEW f \in Files
          PROVE  latest[f] <= Len(server_jobs') /\ (latest[f] # NoJob => server_jobs'[latest[f]].file = f)
      <3>1. latest[f] \in Nat  BY <1>0 DEF QueueTyped, AnyJob, JobId, NoJob
      <3>2. latest[f] <= Len(server_jobs) /\ (latest[f] # NoJob => server_jobs[latest[f]].file = f)
        BY <1>0 DEF LatestKnown
      <3>3. latest[f] # NoJob => latest[f] \in DOMAIN server_jobs
        BY <1>0, <3>1, <3>2 DEF ServerTyped, NoJob
      <3> QED  BY <3>1, <3>2, <3>3, MoreJobs DEF JobsGrow
    <2> QED  BY <1>4, <2>1 DEF LatestKnown
  <1> QED  BY <1>1, <1>2, <1>3, <1>4

LEMMA SetBatchKnown ==
    ASSUME PageTypeOK, NEW b \in Seq(QueuedItem), NEW a \in Nat, SetBatch(b, a), JobsGrow,
           ItemsKnown(b, Len(server_jobs'))
    PROVE  BatchKnown' /\ PollKnown'
  <1>0. Len(server_jobs') >= 0  BY TypesSplit DEF PageTypeOK, ServerTyped, JobsGrow
  <1>1. batch' = b  BY DEF SetBatch
  <1>2. JobAt(b, a) \in AnyJob /\ JobAt(b, a) <= Len(server_jobs')
    <2>1. CASE a \in DOMAIN b
      <3>1. b[a] \in QueuedItem  BY <2>1
      <3> QED  BY <2>1, <3>1 DEF JobAt, QueuedItem, ItemsKnown
    <2>2. CASE a \notin DOMAIN b  BY <1>0, <2>2 DEF JobAt, AnyJob, NoJob
    <2> QED  BY <2>1, <2>2
  <1>3. poll'.job = JobAt(b, a)  BY <1>2, WatchKeepsTypes DEF SetBatch
  <1> QED  BY <1>1, <1>2, <1>3 DEF BatchKnown, PollKnown

LEMMA ProceedKnown ==
    ASSUME PageTypeOK, PageKnown, JobsGrow,
           NEW l \in DOMAIN loops, NEW items \in Seq(QueuedItem), Proceed(l, items),
           DOMAIN items = DOMAIN loops[l].items, ItemsKnown(items, Len(server_jobs'))
    PROVE  BatchKnown' /\ PollKnown' /\ LoopsKnown'
  <1>0. QueueTyped  BY TypesSplit DEF PageTypeOK
  <1>1. loops \in Seq(SubmitLoop) /\ active \in Nat  BY <1>0 DEF QueueTyped
  <1>2. loops[l].i \in 1 .. Len(items)
    <2>1. LoopSound(loops[l], Len(server_jobs'))  BY LoopsStaySound
    <2> QED  BY <2>1 DEF LoopSound
  <1>3. LoopsKnown'
    <2> DEFINE loop == [items |-> items, i |-> loops[l].i + 1]
    <2>1. CASE loops[l].i < Len(items)
      <3>1. loops' = [loops EXCEPT ![l] = loop]  BY <2>1 DEF Proceed
      <3>2. LoopSound(loop, Len(server_jobs'))  BY <1>2, <2>1 DEF LoopSound
      <3>3. \A m \in DOMAIN loops' : loops'[m] = loop \/ (m \in DOMAIN loops /\ loops'[m] = loops[m])
        BY <3>1
      <3> HIDE DEF loop
      <3> QED  BY <3>2, <3>3, LoopsStaySound DEF LoopsKnown
    <2>2. CASE ~(loops[l].i < Len(items))
      <3>1. loops' = RemoveAt(loops, l)  BY <2>2 DEF Proceed
      <3>2. \A m \in DOMAIN loops' : \E n \in DOMAIN loops : loops'[m] = loops[n]
        BY <3>1, <1>1, Removed
      <3> QED  BY <3>2, LoopsStaySound DEF LoopsKnown
    <2> QED  BY <2>1, <2>2
  <1>4. CASE mounted
    <2>1. SetBatch(items, active)  BY <1>4 DEF Proceed
    <2> QED  BY <1>1, <1>3, <2>1, SetBatchKnown
  <1>5. CASE ~mounted
    <2>1. UNCHANGED <<batch, poll>>  BY <1>5 DEF Proceed, polling
    <2> QED  BY <1>3, <2>1, StillKnown
  <1> QED  BY <1>4, <1>5

LEMMA LatestMoves ==
    ASSUME PageTypeOK, PageKnown, JobsGrow, NEW f \in Files, NEW id \in JobId,
           latest' = [latest EXCEPT ![f] = id], id <= Len(server_jobs'), server_jobs'[id].file = f
    PROVE  LatestKnown'
  <1>0. ServerTyped /\ QueueTyped /\ LatestKnown  BY TypesSplit DEF PageTypeOK, PageKnown
  <1>1. ASSUME NEW g \in Files
        PROVE  latest'[g] <= Len(server_jobs') /\ (latest'[g] # NoJob => server_jobs'[latest'[g]].file = g)
    <2>1. CASE g = f  BY <1>0, <2>1 DEF QueueTyped
    <2>2. CASE g # f
      <3>1. latest'[g] = latest[g] /\ latest[g] \in Nat
        BY <1>0, <2>2 DEF QueueTyped, AnyJob, JobId, NoJob
      <3>2. latest[g] <= Len(server_jobs) /\ (latest[g] # NoJob => server_jobs[latest[g]].file = g)
        BY <1>0 DEF LatestKnown
      <3>3. latest[g] # NoJob => latest[g] \in DOMAIN server_jobs
        BY <1>0, <3>1, <3>2 DEF ServerTyped, NoJob
      <3> QED  BY <3>1, <3>2, <3>3, MoreJobs DEF JobsGrow
    <2> QED  BY <2>1, <2>2
  <1> QED  BY <1>1 DEF LatestKnown

LEMMA NewJobGrows ==
    ASSUME PageTypeOK, NEW f \in Files, NEW s \in Dispatched, Len(server_jobs) + 1 \in JobId,
           server_jobs' = NewJob(f, s)
    PROVE  JobsGrow /\ Len(server_jobs') = Len(server_jobs) + 1 /\ server_jobs'[Len(server_jobs) + 1].file = f
  <1>1. Len(server_jobs) \in Nat  BY TypesSplit DEF PageTypeOK, ServerTyped
  <1> QED  BY <1>1, NewJobTyped DEF JobsGrow

LEMMA SameJobsGrow ==
    ASSUME PageTypeOK, server_jobs' = server_jobs
    PROVE  JobsGrow
  BY TypesSplit DEF PageTypeOK, ServerTyped, JobsGrow

LEMMA SubmittedKnown ==
    ASSUME PageTypeOK, PageKnown, NEW l \in DOMAIN loops, Submitted(l)
    PROVE  PageKnown'
  <1> DEFINE loop == loops[l]
             id == Len(server_jobs) + 1
             file == loop.items[loop.i].file
             item == [file |-> file, asset |-> TRUE, job |-> id]
             items == [loop.items EXCEPT ![loop.i] = item]
  <1>1. PICK s \in Dispatched :
        /\ id \in JobId /\ server_jobs' = NewJob(file, s) /\ latest' = [latest EXCEPT ![file] = id]
        /\ Proceed(l, items)
    BY DEF Submitted
  <1>2. /\ file \in Files /\ items \in Seq(QueuedItem) /\ DOMAIN items = DOMAIN loop.items
        /\ \A i \in DOMAIN items : items[i] = IF i = loop.i THEN item ELSE loop.items[i]
    BY <1>1, AnsweredItem
  <1>3. JobsGrow /\ Len(server_jobs') = id /\ server_jobs'[id].file = file
    BY <1>1, <1>2, NewJobGrows
  <1>4. LoopSound(loop, Len(server_jobs'))  BY <1>3, LoopsStaySound
  <1>5. ItemsKnown(items, Len(server_jobs'))
    <2>1. ASSUME NEW i \in DOMAIN items PROVE items[i].job <= Len(server_jobs')
      <3>1. CASE i = loop.i
        <4>1. items[i].job = id  BY <1>2, <3>1
        <4>2. id \in Nat  BY <1>1 DEF JobId
        <4> QED  BY <1>3, <4>1, <4>2
      <3>2. CASE i # loop.i  BY <1>2, <1>4, <3>2 DEF LoopSound, ItemsKnown
      <3> QED  BY <3>1, <3>2
    <2> QED  BY <2>1 DEF ItemsKnown
  <1> HIDE DEF items, file
  <1>6. BatchKnown' /\ PollKnown' /\ LoopsKnown'  BY <1>1, <1>2, <1>3, <1>5, ProceedKnown
  <1>7. id <= Len(server_jobs')  BY <1>1, <1>3 DEF JobId
  <1>8. LatestKnown'  BY <1>1, <1>2, <1>3, <1>7, LatestMoves
  <1> QED  BY <1>6, <1>8 DEF PageKnown

LEMMA SubmitFailsKnown ==
    ASSUME PageTypeOK, PageKnown, NEW l \in DOMAIN loops, SubmitFails(l)
    PROVE  PageKnown'
  <1>1. server_jobs' = server_jobs /\ latest' = latest /\ Proceed(l, loops[l].items)
    BY DEF SubmitFails, server
  <1>2. JobsGrow  BY <1>1, SameJobsGrow
  <1>3. loops[l] \in SubmitLoop /\ LoopSound(loops[l], Len(server_jobs'))  BY <1>2, LoopsStaySound
  <1>4. loops[l].items \in Seq(QueuedItem) /\ ItemsKnown(loops[l].items, Len(server_jobs'))
    BY <1>3 DEF SubmitLoop, LoopSound
  <1>5. BatchKnown' /\ PollKnown' /\ LoopsKnown'  BY <1>1, <1>2, <1>4, ProceedKnown
  <1> QED  BY <1>1, <1>2, <1>5, StillKnown DEF PageKnown

LEMMA Dropped ==
    ASSUME PageTypeOK, OnFiles
    PROVE  \E files \in Drops :
             LET items == [i \in DOMAIN files |-> NewItem(files[i])]
             IN  /\ items \in Seq(QueuedItem) /\ DOMAIN items = DOMAIN files /\ 1 \in DOMAIN items
                 /\ \A i \in DOMAIN items : items[i].file = files[i] /\ items[i].job = NoJob
                 /\ SetBatch(items, 1) /\ loops' = Append(loops, [items |-> items, i |-> 1])
  <1>1. PICK files \in Drops :
          LET items == [i \in DOMAIN files |-> NewItem(files[i])]
          IN  SetBatch(items, 1) /\ loops' = Append(loops, [items |-> items, i |-> 1])
    BY DEF OnFiles
  <1> DEFINE items == [i \in DOMAIN files |-> NewItem(files[i])]
  <1>2. files \in Seq(Files) /\ files # <<>>  BY StudioAssumption DEF PageTypeOK
  <1>3. items \in Seq(QueuedItem)
    <2>1. \A i \in 1 .. Len(files) : NewItem(files[i]) \in QueuedItem
      BY <1>2 DEF NewItem, QueuedItem, AnyJob
    <2>2. items \in [1 .. Len(files) -> QueuedItem]  BY <1>2, <2>1
    <2> QED  BY <1>2, <2>2
  <1>4. DOMAIN items = DOMAIN files /\ 1 \in DOMAIN items  BY <1>2
  <1>5. \A i \in DOMAIN items : items[i].file = files[i] /\ items[i].job = NoJob  BY DEF NewItem
  <1> QED  BY <1>1, <1>3, <1>4, <1>5

LEMMA OnFilesKnown ==
    ASSUME PageTypeOK, PageKnown, OnFiles
    PROVE  PageKnown'
  <1>1. PICK items \in Seq(QueuedItem) :
          /\ 1 \in DOMAIN items /\ \A i \in DOMAIN items : items[i].job = NoJob
          /\ SetBatch(items, 1) /\ loops' = Append(loops, [items |-> items, i |-> 1])
    BY Dropped
  <1>2. server_jobs' = server_jobs /\ latest' = [f \in Files |-> NoJob]  BY DEF OnFiles, server
  <1>3. JobsGrow  BY <1>2, SameJobsGrow
  <1>4. Len(server_jobs') \in Nat /\ loops \in Seq(SubmitLoop)
    BY <1>2, TypesSplit DEF PageTypeOK, ServerTyped, QueueTyped
  <1>5. ItemsKnown(items, Len(server_jobs'))  BY <1>1, <1>4 DEF ItemsKnown, NoJob
  <1>6. BatchKnown' /\ PollKnown'  BY <1>1, <1>3, <1>5, SetBatchKnown
  <1>7. LoopsKnown'
    <2> DEFINE loop == [items |-> items, i |-> 1]
    <2>1. LoopSound(loop, Len(server_jobs'))  BY <1>1, <1>5 DEF LoopSound
    <2>2. \A l \in DOMAIN loops' : loops'[l] = loop \/ (l \in DOMAIN loops /\ loops'[l] = loops[l])
      BY <1>1, <1>4
    <2> HIDE DEF loop
    <2> QED  BY <1>3, <2>1, <2>2, LoopsStaySound DEF LoopsKnown
  <1>8. LatestKnown'  BY <1>2, <1>4 DEF LatestKnown, NoJob
  <1> QED  BY <1>6, <1>7, <1>8 DEF PageKnown

LEMMA ReprocessedKnown ==
    ASSUME PageTypeOK, PageKnown, NEW n \in DOMAIN reruns, Reprocessed(n)
    PROVE  PageKnown' /\ JobsGrow
  <1>0. ServerTyped /\ QueueTyped /\ BatchKnown  BY TypesSplit DEF PageTypeOK, PageKnown
  <1> DEFINE r == reruns[n]
             rebatch(id) == [i \in DOMAIN batch |->
                               IF i = AtIndex(r) THEN [batch[i] EXCEPT !.job = id] ELSE batch[i]]
  <1>1. PICK id \in {j \in DOMAIN server_jobs : server_jobs[j].file = r.file} \cup {Len(server_jobs) + 1} :
          /\ id \in JobId
          /\ IF id \in DOMAIN server_jobs THEN UNCHANGED server
             ELSE \E s \in Dispatched : server_jobs' = NewJob(r.file, s)
          /\ latest' = [latest EXCEPT ![r.file] = id]
          /\ IF mounted THEN SetBatch(rebatch(id), active)
             ELSE UNCHANGED <<batch, active, polling, following>>
    BY DEF Reprocessed
  <1>2. r \in Rerun /\ batch \in Seq(QueuedItem) /\ active \in Nat  BY <1>0 DEF QueueTyped
  <1>3. r.file \in Files  BY <1>2 DEF Rerun
  <1>4. JobsGrow /\ id <= Len(server_jobs') /\ server_jobs'[id].file = r.file
    <2>1. CASE id \in DOMAIN server_jobs  BY <1>0, <1>1, <2>1, SameJobsGrow DEF ServerTyped, server
    <2>2. CASE id \notin DOMAIN server_jobs
      <3>1. PICK s \in Dispatched : id = Len(server_jobs) + 1 /\ server_jobs' = NewJob(r.file, s)
        BY <1>1, <2>2
      <3>2. Len(server_jobs) \in Nat  BY <1>0 DEF ServerTyped
      <3> QED  BY <3>1, <3>2, <1>1, <1>3, NewJobGrows
    <2> QED  BY <2>1, <2>2
  <1>5. rebatch(id) \in Seq(QueuedItem) /\ ItemsKnown(rebatch(id), Len(server_jobs'))
    <2>1. \A q \in QueuedItem : [q EXCEPT !.job = id] \in QueuedItem /\ [q EXCEPT !.job = id].job = id
      BY <1>1 DEF QueuedItem, AnyJob
    <2>2. rebatch(id) \in [1 .. Len(batch) -> QueuedItem]  BY <1>2, <2>1
    <2>3. ItemsKnown(batch, Len(server_jobs'))  BY <1>0, <1>2, <1>4, ItemsStayKnown DEF BatchKnown
    <2>4. ASSUME NEW i \in DOMAIN rebatch(id) PROVE rebatch(id)[i].job <= Len(server_jobs')
      <3>1. i \in DOMAIN batch /\ batch[i] \in QueuedItem  BY <1>2
      <3>2. CASE i = AtIndex(r)  BY <1>4, <2>1, <3>1, <3>2
      <3>3. CASE i # AtIndex(r)  BY <2>3, <3>1, <3>3 DEF ItemsKnown
      <3> QED  BY <3>2, <3>3
    <2> HIDE DEF rebatch
    <2> QED  BY <1>2, <2>2, <2>4 DEF ItemsKnown
  <1> HIDE DEF rebatch
  <1>6. BatchKnown' /\ PollKnown'
    <2>1. CASE mounted  BY <1>1, <1>2, <1>4, <1>5, <2>1, SetBatchKnown
    <2>2. CASE ~mounted  BY <1>1, <1>4, <2>2, StillKnown DEF polling
    <2> QED  BY <2>1, <2>2
  <1>7. LatestKnown'  BY <1>1, <1>3, <1>4, LatestMoves
  <1>8. LoopsKnown'  BY <1>4, StillKnown DEF Reprocessed
  <1> QED  BY <1>4, <1>6, <1>7, <1>8 DEF PageKnown

LEMMA ServerStepGrows ==
    ASSUME PageTypeOK, NEW j \in DOMAIN server_jobs, JobMoves(j) \/ JobRequeued(j)
    PROVE  JobsGrow
  <1>1. ServerTyped  BY TypesSplit DEF PageTypeOK
  <1>2. PICK s \in Status : server_jobs' = [server_jobs EXCEPT ![j].status = s]
    BY DEF JobMoves, JobRequeued, Status
  <1>3. server_jobs[j] \in JobRow  BY <1>1 DEF ServerTyped
  <1>4. [server_jobs[j] EXCEPT !.status = s].file = server_jobs[j].file  BY <1>3 DEF JobRow
  <1> QED  BY <1>1, <1>2, <1>4 DEF JobsGrow, ServerTyped

LEMMA KnownStep ==
    ASSUME PageTypeOK, PageKnown, [PageNext]_pageVars
    PROVE  PageKnown'
  <1>0. ServerTyped /\ QueueTyped /\ PollTyped /\ BatchKnown
    BY TypesSplit DEF PageTypeOK, PageKnown
  <1>1. CASE OnFiles  BY <1>1, OnFilesKnown
  <1>2. CASE Clear \/ Unmount
    <2>1. server_jobs' = server_jobs /\ batch' = <<>> /\ loops' = loops /\ latest' = latest /\ poll'.job = NoJob
      BY <1>2 DEF Clear, Unmount, server
    <2>2. BatchKnown' /\ PollKnown'
      BY <1>0, <2>1 DEF BatchKnown, ItemsKnown, PollKnown, NoJob, ServerTyped
    <2> QED  BY <2>1, <2>2, SameJobsGrow, StillKnown DEF PageKnown
  <1>3. CASE \/ Reprocess \/ SetBackgroundMode \/ PollFails \/ Polled \/ ResultArrives \/ ResultFails
             \/ \E n \in DOMAIN reruns : ReprocessFails(n)
             \/ \E e \in DOMAIN fetches, k \in Kinds : OutputArrives(e, k) \/ OutputFails(e, k)
    <2>1. server_jobs' = server_jobs /\ batch' = batch /\ loops' = loops /\ latest' = latest
      BY <1>3 DEF Reprocess, SetBackgroundMode, PollFails, Polled, ResultArrives, ResultFails,
         ReprocessFails, OutputArrives, OutputFails, server, queue
    <2>2. poll' = poll \/ poll' = [poll EXCEPT !.pc = "stopped"]
      BY <1>3 DEF Reprocess, SetBackgroundMode, PollFails, Polled, ResultArrives, ResultFails,
         ReprocessFails, OutputArrives, OutputFails, polling
    <2>3. poll'.job = poll.job  BY <1>0, <2>2 DEF PollTyped
    <2>4. PollKnown'  BY <2>1, <2>3 DEF PageKnown, PollKnown
    <2> QED  BY <2>1, <2>4, SameJobsGrow, StillKnown DEF PageKnown
  <1>4. ASSUME NEW i \in DOMAIN batch, SetActiveIndex(i) PROVE PageKnown'
    <2>1. /\ SetBatch(batch, i) /\ i \in Nat /\ batch \in Seq(QueuedItem)
          /\ server_jobs' = server_jobs /\ loops' = loops /\ latest' = latest
      BY <1>0, <1>4 DEF SetActiveIndex, QueueTyped, server
    <2>2. JobsGrow  BY <2>1, SameJobsGrow
    <2>3. BatchKnown' /\ PollKnown'
      <3>1. ItemsKnown(batch, Len(server_jobs'))  BY <1>0, <2>1 DEF BatchKnown
      <3> QED  BY <2>1, <2>2, <3>1, SetBatchKnown
    <2> QED  BY <2>1, <2>2, <2>3, StillKnown DEF PageKnown
  <1>5. ASSUME NEW l \in DOMAIN loops, Submitted(l) \/ SubmitFails(l) PROVE PageKnown'
    BY <1>5, SubmittedKnown, SubmitFailsKnown
  <1>6. ASSUME NEW n \in DOMAIN reruns, Reprocessed(n) PROVE PageKnown'
    BY <1>6, ReprocessedKnown
  <1>7. ASSUME NEW j \in DOMAIN server_jobs, JobMoves(j) \/ JobRequeued(j) PROVE PageKnown'
    <2>1. UNCHANGED <<batch, loops, latest, poll>>
      BY <1>7 DEF JobMoves, JobRequeued, queue, polling
    <2> QED  BY <1>7, <2>1, ServerStepGrows, StillKnown DEF PageKnown
  <1>8. CASE UNCHANGED pageVars
    <2>1. UNCHANGED <<server_jobs, batch, loops, latest, poll>>
      BY <1>8 DEF pageVars, server, queue, polling
    <2> QED  BY <2>1, SameJobsGrow, StillKnown DEF PageKnown
  <1> QED
    BY <1>1, <1>2, <1>3, <1>4, <1>5, <1>6, <1>7, <1>8 DEF PageNext, User, Answers, Fetched, Server
-----------------------------------------------------------------------------
(* Only one call writes the batch at a time *)

Distinct(items) == \A i, j \in DOMAIN items : items[i].file = items[j].file => i = j

\* While nothing was cleared under a request, at most one call is in flight and its
\* copy, or its index, is of the batch as it is.
OneCall ==
    /\ loops = <<>> \/ reruns = <<>>
    /\ Len(loops) <= 1 /\ Len(reruns) <= 1
    /\ InFlight => busy
    /\ loops # <<>> => loops[1].items = batch
    /\ reruns # <<>> => /\ reruns[1].index \in DOMAIN batch
                        /\ batch[reruns[1].index].file = reruns[1].file
BatchLatest == Distinct(batch) /\ \A i \in DOMAIN batch : batch[i].job = latest[batch[i].file]

PageAlone ==
    /\ mounted /\ ~cleared => OneCall /\ BatchLatest
    /\ ~mounted => batch = <<>>

LEMMA RemovedLast ==
    ASSUME NEW S, NEW s \in Seq(S), Len(s) <= 1, NEW i \in DOMAIN s
    PROVE  i = 1 /\ Len(s) = 1 /\ RemoveAt(s, i) = <<>>
  <1>1. i = 1 /\ Len(s) = 1
    <2>1. Len(s) \in Nat /\ i \in 1 .. Len(s)  OBVIOUS
    <2>2. \A n \in Nat : \A j \in 1 .. n : n <= 1 => j = 1 /\ n = 1  OBVIOUS
    <2> QED  BY <2>1, <2>2
  <1>2. RemoveAt(s, i) \in Seq(S) /\ Len(RemoveAt(s, i)) = 0  BY <1>1, Removed
  <1> QED  BY <1>1, <1>2

LEMMA ProceedAlone ==
    ASSUME PageTypeOK, PageKnown, OneCall, mounted, NEW l \in DOMAIN loops, NEW items \in Seq(QueuedItem),
           Proceed(l, items), DOMAIN items = DOMAIN batch
    PROVE  /\ l = 1 /\ loops[l].items = batch /\ batch' = items
           /\ Len(loops') <= 1 /\ (loops' # <<>> => loops'[1].items = items)
           /\ (loops' # <<>> => busy')
  <1>0. QueueTyped  BY TypesSplit DEF PageTypeOK
  <1>1. loops \in Seq(SubmitLoop) /\ Len(loops) <= 1 /\ loops # <<>>
    BY <1>0 DEF QueueTyped, OneCall
  <1>2. l = 1 /\ Len(loops) = 1  BY <1>1, RemovedLast
  <1>3. loops[l].items = batch /\ busy  BY <1>1, <1>2 DEF OneCall, InFlight
  <1>4. batch' = items  BY DEF Proceed, SetBatch
  <1>5. CASE loops[l].i < Len(items)
    <2>1. loops' = [loops EXCEPT ![l] = [items |-> items, i |-> loops[l].i + 1]] /\ busy' = busy
      BY <1>5 DEF Proceed
    <2>2. Len(loops') = 1 /\ loops'[1] = [items |-> items, i |-> loops[l].i + 1]
      BY <1>1, <1>2, <2>1
    <2>3. loops'[1].items = items  BY <2>2
    <2>4. Len(loops') <= 1  BY <2>2
    <2>5. busy'  BY <1>3, <2>1
    <2> QED  BY <1>2, <1>3, <1>4, <2>3, <2>4, <2>5
  <1>6. CASE ~(loops[l].i < Len(items))
    <2>1. loops' = RemoveAt(loops, l)  BY <1>6 DEF Proceed
    <2>2. loops' = <<>>  BY <2>1, <1>1, RemovedLast
    <2> QED  BY <1>2, <1>3, <1>4, <2>2
  <1> QED  BY <1>5, <1>6

LEMMA SubmittedAlone ==
    ASSUME PageTypeOK, PageKnown, OneCall, BatchLatest, mounted,
           NEW l \in DOMAIN loops, Submitted(l)
    PROVE  (OneCall /\ BatchLatest)'
  <1> DEFINE loop == loops[l]
             id == Len(server_jobs) + 1
             file == loop.items[loop.i].file
             item == [file |-> file, asset |-> TRUE, job |-> id]
             items == [loop.items EXCEPT ![loop.i] = item]
  <1>0. loops \in Seq(SubmitLoop) /\ reruns = <<>> /\ loop.items = batch
        /\ latest \in [Files -> AnyJob] /\ batch \in Seq(QueuedItem)
    <2>1. QueueTyped /\ loops # <<>>  BY TypesSplit DEF PageTypeOK, QueueTyped
    <2>2. l = 1  BY <2>1 DEF QueueTyped, OneCall
    <2> QED  BY <2>1, <2>2 DEF QueueTyped, OneCall
  <1>1. /\ id \in JobId /\ latest' = [latest EXCEPT ![file] = id] /\ Proceed(l, items)
    BY DEF Submitted
  <1>2. /\ file \in Files /\ items \in Seq(QueuedItem) /\ DOMAIN items = DOMAIN batch
        /\ loop.i \in DOMAIN batch /\ file = batch[loop.i].file
        /\ \A i \in DOMAIN items : items[i] = IF i = loop.i THEN item ELSE batch[i]
    BY <1>0, <1>1, AnsweredItem
  <1>3. \A i \in DOMAIN items : items[i].file = batch[i].file  BY <1>2
  <1>4. \A i \in DOMAIN items : items[i].job = latest'[items[i].file]
    <2>1. ASSUME NEW i \in DOMAIN items PROVE items[i].job = latest'[items[i].file]
      <3>1. CASE i = loop.i  BY <1>0, <1>1, <1>2, <3>1
      <3>2. CASE i # loop.i
        <4>1. batch[i].file # file  BY <1>2, <3>2 DEF BatchLatest, Distinct
        <4>2. items[i] = batch[i]  BY <1>2, <3>2
        <4>3. batch[i].file \in Files
          <5>1. batch[i] \in QueuedItem  BY <1>0, <1>2
          <5> QED  BY <5>1 DEF QueuedItem
        <4> QED  BY <1>0, <1>1, <1>2, <4>1, <4>2, <4>3 DEF BatchLatest
      <3> QED  BY <3>1, <3>2
    <2> QED  BY <2>1
  <1> HIDE DEF items, file, item
  <1>5. /\ batch' = items /\ Len(loops') <= 1 /\ (loops' # <<>> => loops'[1].items = items)
        /\ (loops' # <<>> => busy')
    BY <1>1, <1>2, ProceedAlone
  <1>6. reruns' = <<>>  BY <1>0, <1>1 DEF Proceed
  <1>7. OneCall'  BY <1>5, <1>6 DEF OneCall, InFlight
  <1>8. BatchLatest'  BY <1>2, <1>3, <1>4, <1>5 DEF BatchLatest, Distinct
  <1> QED  BY <1>7, <1>8

LEMMA SubmitFailsAlone ==
    ASSUME PageTypeOK, PageKnown, OneCall, BatchLatest, mounted,
           NEW l \in DOMAIN loops, SubmitFails(l)
    PROVE  (OneCall /\ BatchLatest)'
  <1>0. loops \in Seq(SubmitLoop) /\ reruns = <<>> /\ loops[l].items = batch /\ batch \in Seq(QueuedItem)
    <2>1. QueueTyped /\ loops # <<>>  BY TypesSplit DEF PageTypeOK, QueueTyped
    <2>2. l = 1  BY <2>1 DEF QueueTyped, OneCall
    <2> QED  BY <2>1, <2>2 DEF QueueTyped, OneCall
  <1>1. latest' = latest /\ Proceed(l, batch)  BY <1>0 DEF SubmitFails
  <1>2. /\ batch' = batch /\ Len(loops') <= 1 /\ (loops' # <<>> => loops'[1].items = batch)
        /\ (loops' # <<>> => busy')
    BY <1>0, <1>1, ProceedAlone
  <1>3. reruns' = <<>>  BY <1>0, <1>1 DEF Proceed
  <1>4. OneCall'  BY <1>2, <1>3 DEF OneCall, InFlight
  <1>5. BatchLatest'  BY <1>1, <1>2 DEF BatchLatest, Distinct
  <1> QED  BY <1>4, <1>5

\* Nothing is in flight for an empty batch, nor while the page is not busy.
LEMMA Idle ==
    ASSUME PageTypeOK, PageKnown, OneCall, batch = <<>> \/ ~busy
    PROVE  loops = <<>> /\ reruns = <<>>
  <1>1. loops \in Seq(SubmitLoop) /\ LoopsKnown
    BY TypesSplit DEF PageTypeOK, QueueTyped, PageKnown
  <1>2. ASSUME loops # <<>>, batch = <<>> PROVE FALSE
    <2>1. 1 \in DOMAIN loops  BY <1>1, <1>2
    <2>2. loops[1].i \in DOMAIN loops[1].items /\ loops[1].items = <<>>
      BY <1>1, <1>2, <2>1 DEF LoopsKnown, LoopSound, OneCall
    <2> QED  BY <2>2
  <1>3. ASSUME reruns # <<>>, batch = <<>> PROVE FALSE
    BY <1>3 DEF OneCall
  <1> QED  BY <1>2, <1>3 DEF OneCall, InFlight

LEMMA ReprocessedAlone ==
    ASSUME PageTypeOK, PageKnown, OneCall, BatchLatest, mounted,
           NEW n \in DOMAIN reruns, Reprocessed(n)
    PROVE  (OneCall /\ BatchLatest)'
  <1> DEFINE r == reruns[n]
             rebatch(id) == [i \in DOMAIN batch |->
                               IF i = AtIndex(r) THEN [batch[i] EXCEPT !.job = id] ELSE batch[i]]
  <1>0. /\ reruns \in Seq(Rerun) /\ latest \in [Files -> AnyJob] /\ batch \in Seq(QueuedItem)
        /\ loops = <<>> /\ Len(reruns) <= 1
    <2>1. QueueTyped /\ reruns # <<>>  BY TypesSplit DEF PageTypeOK, QueueTyped
    <2> QED  BY <2>1 DEF QueueTyped, OneCall
  <1>1. PICK id \in JobId :
          latest' = [latest EXCEPT ![r.file] = id] /\ batch' = rebatch(id)
    BY DEF Reprocessed, SetBatch
  <1>2. n = 1 /\ RemoveAt(reruns, n) = <<>>  BY <1>0, RemovedLast
  <1>3. reruns' = <<>> /\ loops' = <<>>  BY <1>0, <1>2 DEF Reprocessed
  <1>4. OneCall'  BY <1>3 DEF OneCall, InFlight
  <1>5. AtIndex(r) \in DOMAIN batch /\ batch[AtIndex(r)].file = r.file
    BY <1>0, <1>2 DEF OneCall, AtIndex
  <1>6. ASSUME NEW i \in DOMAIN batch
        PROVE  rebatch(id)[i].file = batch[i].file /\ rebatch(id)[i].job = latest'[batch[i].file]
    <2>1. batch[i] \in QueuedItem  BY <1>0
    <2>2. batch[i].file \in Files  BY <2>1 DEF QueuedItem
    <2>3. CASE i = AtIndex(r)
      <3>1. [batch[i] EXCEPT !.job = id].file = batch[i].file /\ [batch[i] EXCEPT !.job = id].job = id
        BY <2>1 DEF QueuedItem
      <3>2. rebatch(id)[i] = [batch[i] EXCEPT !.job = id]  BY <2>3
      <3>3. latest'[batch[i].file] = id  BY <1>0, <1>1, <1>5, <2>2, <2>3
      <3> QED  BY <3>1, <3>2, <3>3
    <2>4. CASE i # AtIndex(r)
      <3>1. rebatch(id)[i] = batch[i]  BY <2>4
      <3>2. batch[i].file # r.file  BY <1>5, <2>4 DEF BatchLatest, Distinct
      <3>3. latest'[batch[i].file] = latest[batch[i].file]  BY <1>0, <1>1, <2>2, <3>2
      <3> QED  BY <3>1, <3>3 DEF BatchLatest
    <2> QED  BY <2>3, <2>4
  <1>7. DOMAIN rebatch(id) = DOMAIN batch  OBVIOUS
  <1> HIDE DEF rebatch
  <1>8. BatchLatest'  BY <1>1, <1>6, <1>7 DEF BatchLatest, Distinct
  <1> QED  BY <1>4, <1>8

LEMMA AloneStep ==
    ASSUME PageTypeOK, PageKnown, PageAlone, [PageNext]_pageVars
    PROVE  PageAlone'
  <1>0. QueueTyped  BY TypesSplit DEF PageTypeOK
  <1>1. CASE OnFiles
    <2>1. mounted /\ mounted' /\ cleared' = cleared /\ batch = <<>> /\ reruns' = reruns /\ busy' = TRUE
          /\ latest' = [f \in Files |-> NoJob]
      BY <1>1 DEF OnFiles
    <2>2. ASSUME ~cleared PROVE (OneCall /\ BatchLatest)'
      <3>1. loops = <<>> /\ reruns = <<>>  BY <2>1, <2>2, Idle DEF PageAlone
      <3>2. PICK files \in Drops :
              LET items == [i \in DOMAIN files |-> NewItem(files[i])]
              IN  /\ items \in Seq(QueuedItem) /\ DOMAIN items = DOMAIN files /\ 1 \in DOMAIN items
                  /\ \A i \in DOMAIN items : items[i].file = files[i] /\ items[i].job = NoJob
                  /\ SetBatch(items, 1) /\ loops' = Append(loops, [items |-> items, i |-> 1])
        BY <1>1, Dropped
      <3> DEFINE items == [i \in DOMAIN files |-> NewItem(files[i])]
      <3>3. /\ items \in Seq(QueuedItem) /\ DOMAIN items = DOMAIN files
            /\ \A i \in DOMAIN items : items[i].file = files[i] /\ items[i].job = NoJob
            /\ SetBatch(items, 1) /\ loops' = Append(loops, [items |-> items, i |-> 1])
        BY <3>2
      <3> HIDE DEF items
      <3>4. batch' = items /\ loops' = <<[items |-> items, i |-> 1]>>
        BY <3>1, <3>3 DEF SetBatch
      <3>5. OneCall'  BY <2>1, <3>1, <3>4 DEF OneCall, InFlight
      <3>6. Distinct(items)
        <4>1. \A i, j \in DOMAIN files : files[i] = files[j] => i = j
          BY StudioAssumption DEF PageTypeOK
        <4> QED  BY <3>3, <4>1 DEF Distinct
      <3>7. \A i \in DOMAIN items : items[i].file \in Files
        <4>1. \A i \in DOMAIN items : items[i] \in QueuedItem  BY <3>3
        <4> QED  BY <4>1 DEF QueuedItem
      <3>8. BatchLatest'
        BY <2>1, <3>3, <3>4, <3>6, <3>7 DEF BatchLatest, Distinct
      <3> QED  BY <3>5, <3>8
    <2> QED  BY <2>1, <2>2 DEF PageAlone
  <1>2. CASE Clear
    <2>1. /\ mounted /\ mounted' /\ batch' = <<>> /\ cleared' = (cleared \/ InFlight)
          /\ loops' = loops /\ reruns' = reruns
      BY <1>2 DEF Clear
    <2>2. ASSUME ~cleared' PROVE (OneCall /\ BatchLatest)'
      <3>1. loops' = <<>> /\ reruns' = <<>>  BY <2>1, <2>2 DEF InFlight
      <3>2. OneCall'  BY <3>1 DEF OneCall, InFlight
      <3>3. DOMAIN batch' = {}  BY <2>1
      <3>4. BatchLatest'  BY <3>3 DEF BatchLatest, Distinct
      <3> QED  BY <3>2, <3>4
    <2> QED  BY <2>1, <2>2 DEF PageAlone
  <1>3. CASE Unmount  BY <1>3 DEF Unmount, PageAlone
  <1>4. CASE Reprocess
    <2>1. /\ mounted /\ ~busy /\ busy' = TRUE /\ active \in DOMAIN batch
          /\ reruns' = Append(reruns, [index |-> active, file |-> batch[active].file])
          /\ UNCHANGED <<mounted, batch, loops, latest, cleared>>
      BY <1>4 DEF Reprocess, CanReprocess
    <2>2. ASSUME ~cleared PROVE (OneCall /\ BatchLatest)'
      <3>1. OneCall /\ BatchLatest /\ loops = <<>> /\ reruns = <<>>
        BY <2>1, <2>2, Idle DEF PageAlone
      <3>2. reruns' = <<[index |-> active, file |-> batch[active].file]>>  BY <2>1, <3>1
      <3>3. OneCall'  BY <2>1, <3>1, <3>2 DEF OneCall, InFlight
      <3>4. BatchLatest'  BY <2>1, <3>1 DEF BatchLatest, Distinct
      <3> QED  BY <3>3, <3>4
    <2> QED  BY <2>1, <2>2 DEF PageAlone
  <1>5. CASE \/ UNCHANGED pageVars \/ SetBackgroundMode \/ PollFails \/ Polled \/ ResultArrives \/ ResultFails
             \/ \E e \in DOMAIN fetches, k \in Kinds : OutputArrives(e, k) \/ OutputFails(e, k)
             \/ \E j \in DOMAIN server_jobs : JobMoves(j) \/ JobRequeued(j)
             \/ \E i \in DOMAIN batch : SetActiveIndex(i)
    <2>1. UNCHANGED <<mounted, batch, loops, reruns, busy, latest, cleared>>
      BY <1>5 DEF pageVars, SetBackgroundMode, PollFails, Polled, ResultArrives, ResultFails,
         OutputArrives, OutputFails, JobMoves, JobRequeued, SetActiveIndex, SetBatch, queue
    <2> QED  BY <2>1 DEF PageAlone, OneCall, InFlight, BatchLatest, Distinct
  <1>6. ASSUME NEW l \in DOMAIN loops, Submitted(l) \/ SubmitFails(l) PROVE PageAlone'
    <2>1. UNCHANGED <<mounted, cleared>>  BY <1>6 DEF Submitted, SubmitFails, Proceed
    <2>2. CASE mounted
      BY <1>6, <2>1, <2>2, SubmittedAlone, SubmitFailsAlone DEF PageAlone
    <2>3. CASE ~mounted
      <3>1. batch' = batch  BY <1>6, <2>3 DEF Submitted, SubmitFails, Proceed
      <3> QED  BY <2>1, <2>3, <3>1 DEF PageAlone
    <2> QED  BY <2>2, <2>3
  <1>7. ASSUME NEW n \in DOMAIN reruns, Reprocessed(n) PROVE PageAlone'
    <2>1. UNCHANGED <<mounted, cleared>>  BY <1>7 DEF Reprocessed
    <2>2. CASE mounted
      BY <1>7, <2>1, <2>2, ReprocessedAlone DEF PageAlone
    <2>3. CASE ~mounted
      <3>1. batch' = batch  BY <1>7, <2>3 DEF Reprocessed
      <3> QED  BY <2>1, <2>3, <3>1 DEF PageAlone
    <2> QED  BY <2>2, <2>3
  <1>8. ASSUME NEW n \in DOMAIN reruns, ReprocessFails(n) PROVE PageAlone'
    <2>1. /\ reruns' = RemoveAt(reruns, n)
          /\ UNCHANGED <<mounted, batch, loops, latest, cleared>>
      BY <1>8 DEF ReprocessFails
    <2>2. ASSUME mounted, ~cleared PROVE (OneCall /\ BatchLatest)'
      <3>1. OneCall /\ BatchLatest /\ reruns # <<>> /\ reruns \in Seq(Rerun)
        BY <1>0, <2>2 DEF PageAlone, QueueTyped
      <3>2. loops' = <<>> /\ Len(reruns) <= 1  BY <2>1, <3>1 DEF OneCall
      <3>3. reruns' = <<>>  BY <2>1, <3>1, <3>2, RemovedLast
      <3>4. OneCall'  BY <3>2, <3>3 DEF OneCall, InFlight
      <3> QED  BY <2>1, <3>1, <3>4 DEF BatchLatest, Distinct
    <2> QED  BY <2>1, <2>2 DEF PageAlone
  <1> QED
    BY <1>1, <1>2, <1>3, <1>4, <1>5, <1>6, <1>7, <1>8 DEF PageNext, User, Answers, Fetched, Server
-----------------------------------------------------------------------------
(* The outputs on the page *)

Shows(j) == [job |-> j, revoked |-> FALSE]

\* The one run that fetches outputs is of the job in the result panel: what is still to
\* come is not there, and without a failure what is not to come is.
FetchSound ==
    fetches # <<>> =>
        /\ fetches[1].todo # {} /\ fetches[1].job = result /\ asking = NoJob
        /\ \A k \in fetches[1].todo : outputs[k] = NoJob
        /\ errors = 0 => /\ fetches[1].live
                         /\ \A k \in Kinds \ fetches[1].todo : outputs[k] = result
Complete ==
    (fetches = <<>> /\ asking = NoJob /\ result # NoJob /\ errors = 0)
        => (\A k \in Kinds : outputs[k] = result) /\ shown = Shows(result)
OneJob ==
    /\ \A k \in Kinds : outputs[k] \in {NoJob, result} \/ result = NoJob
    /\ \A k, h \in Kinds : outputs[k] # NoJob /\ outputs[h] # NoJob => outputs[k] = outputs[h]
OutputsSound == ~leaked /\ Len(fetches) <= 1 /\ OneJob /\ FetchSound /\ Complete

PageOutputs == ~overlapped => OutputsSound

Later == errors' \in {errors, errors + 1}

LEMMA OutputsStay ==
    ASSUME PageTypeOK, PageOutputs, Later, UNCHANGED <<following, outputs, leaked>>,
           shown' = shown \/ shown' = ShownOf(outputs)
    PROVE  PageOutputs'
  <1> SUFFICES ASSUME ~overlapped PROVE OutputsSound'
    BY DEF PageOutputs, following
  <1>1. OutputsSound  BY DEF PageOutputs
  <1>2. errors \in Nat /\ Preferred \in Kinds
    BY StudioAssumption DEF PageTypeOK
  <1>3. UNCHANGED <<asking, fetches, result, overlapped>>  BY DEF following
  <1>4. errors' = 0 => errors = 0  BY <1>2 DEF Later
  <1>5. FetchSound' /\ OneJob' /\ ~leaked' /\ Len(fetches') <= 1
    BY <1>1, <1>3, <1>4 DEF OutputsSound, FetchSound, OneJob
  <1>6. Complete'  BY <1>1, <1>2, <1>3, <1>4 DEF OutputsSound, Complete, ShownOf, Shows
  <1> QED  BY <1>5, <1>6 DEF OutputsSound

LEMMA RefetchSound ==
    ASSUME PageTypeOK, PageOutputs, Later, NEW j \in AnyJob, Refetch(j),
           (j = NoJob /\ result' = NoJob) \/ (j # NoJob /\ result' = result),
           outputs' = outputs \/ (RevokeOutputs /\ j = NoJob), leaked' = leaked
    PROVE  PageOutputs'
  <1> SUFFICES ASSUME ~overlapped' PROVE OutputsSound'
    BY DEF PageOutputs
  <1>1. ~overlapped /\ fetches = <<>>  BY DEF Refetch
  <1>2. OutputsSound  BY <1>1 DEF PageOutputs
  <1>3. fetches' = <<>> /\ asking' = j
    <2>1. fetches' = [i \in DOMAIN fetches |-> [fetches[i] EXCEPT !.live = FALSE]]  BY DEF Refetch
    <2>2. DOMAIN fetches = 1 .. 0  BY <1>1
    <2>3. fetches' \in Seq(FetchRun) /\ DOMAIN fetches' = 1 .. 0
      BY <2>1, <2>2, RefetchTyped DEF FollowTyped
    <2> QED  BY <2>3 DEF Refetch
  <1>4. FetchSound' /\ ~leaked' /\ Len(fetches') <= 1  BY <1>2, <1>3 DEF FetchSound, OutputsSound
  <1>5. Complete'  BY <1>3 DEF Complete
  <1>6. OneJob'
    <2>1. CASE outputs' = outputs  BY <1>2, <2>1 DEF OutputsSound, OneJob
    <2>2. CASE RevokeOutputs  BY <2>2 DEF RevokeOutputs, NoOutputs, OneJob
    <2> QED  BY <2>1, <2>2
  <1> QED  BY <1>4, <1>5, <1>6 DEF OutputsSound

LEMMA FollowSound ==
    ASSUME PageTypeOK, PageOutputs, Later, NEW s \in SeenOrNothing, Follow(s),
           UNCHANGED <<outputs, shown, leaked>>
    PROVE  PageOutputs'
  <1>1. CASE s = seen  BY <1>1, OutputsStay DEF Follow
  <1>2. CASE s # seen /\ s.status = "succeeded"
    <2>1. s.id \in AnyJob /\ s.id # NoJob
      BY <1>2 DEF SeenOrNothing, JobSeen, Nothing, AnyJob, JobId, NoJob
    <2>2. Refetch(s.id) /\ result' = result  BY <1>2 DEF Follow
    <2> QED  BY <2>1, <2>2, RefetchSound
  <1>3. CASE s # seen /\ s.status # "succeeded"
    <2>1. Refetch(NoJob) /\ result' = NoJob  BY <1>3 DEF Follow
    <2> QED  BY <2>1, RefetchSound DEF AnyJob
  <1> QED  BY <1>1, <1>2, <1>3

LEMMA SetBatchSound ==
    ASSUME PageTypeOK, PageOutputs, Later, NEW b, NEW a, SetBatch(b, a),
           UNCHANGED <<outputs, shown, leaked>>
    PROVE  PageOutputs'
  <1> DEFINE j == JobAt(b, a)
  <1>1. Watch(j)  BY DEF SetBatch
  <1> HIDE DEF j
  <1>2. CASE j = poll.job  BY <1>1, <1>2, OutputsStay DEF Watch
  <1>3. CASE j # poll.job /\ j = NoJob
    <2>1. Follow(Nothing)  BY <1>1, <1>3 DEF Watch
    <2> QED  BY <2>1, FollowSound DEF SeenOrNothing
  <1>4. CASE j # poll.job /\ j # NoJob
    <2>1. UNCHANGED following  BY <1>1, <1>4 DEF Watch, WatchAny
    <2> QED  BY <2>1, OutputsStay
  <1> QED  BY <1>2, <1>3, <1>4

LEMMA ProceedSound ==
    ASSUME PageTypeOK, PageOutputs, Later, NEW l, NEW items, Proceed(l, items)
    PROVE  PageOutputs'
  <1>1. UNCHANGED <<outputs, shown, leaked>>  BY DEF Proceed
  <1>2. CASE mounted
    <2>1. SetBatch(items, active)  BY <1>2 DEF Proceed
    <2> QED  BY <1>1, <2>1, SetBatchSound
  <1>3. CASE ~mounted
    <2>1. UNCHANGED following  BY <1>3 DEF Proceed
    <2> QED  BY <1>1, <2>1, OutputsStay
  <1> QED  BY <1>2, <1>3

LEMMA ResultSound ==
    ASSUME PageTypeOK, PageOutputs, ResultArrives
    PROVE  PageOutputs'
  <1> SUFFICES ASSUME ~overlapped PROVE OutputsSound'
    BY DEF PageOutputs, ResultArrives
  <1>1. OutputsSound  BY DEF PageOutputs
  <1>2. asking # NoJob /\ result' = asking /\ asking' = NoJob /\ fetches' = Append(fetches, Fetch(asking))
        /\ outputs' = NoOutputs /\ leaked' = leaked
    BY DEF ResultArrives, RevokeOutputs
  <1>3. fetches = <<>>  BY <1>1, <1>2 DEF OutputsSound, FetchSound
  <1>4. Len(fetches') = 1 /\ fetches'[1] = Fetch(asking)  BY <1>2, <1>3
  <1>5. Kinds # {}  BY StudioAssumption DEF PageTypeOK
  <1>6. FetchSound'  BY <1>2, <1>4, <1>5 DEF FetchSound, Fetch, NoOutputs
  <1>7. fetches' # <<>>  BY <1>4
  <1>8. Complete'  BY <1>7 DEF Complete
  <1>9. OneJob'  BY <1>2 DEF OneJob, NoOutputs
  <1> QED  BY <1>1, <1>2, <1>4, <1>6, <1>8, <1>9 DEF OutputsSound

LEMMA OutputSound ==
    ASSUME PageTypeOK, PageOutputs, NEW e \in DOMAIN fetches, NEW k \in Kinds,
           OutputArrives(e, k) \/ OutputFails(e, k)
    PROVE  PageOutputs'
  <1> SUFFICES ASSUME ~overlapped PROVE OutputsSound'
    BY DEF PageOutputs, OutputArrives, OutputFails
  <1>1. OutputsSound  BY DEF PageOutputs
  <1>2. fetches \in Seq(FetchRun) /\ Preferred \in Kinds /\ errors \in Nat
        /\ outputs \in [Kinds -> AnyJob]
    BY StudioAssumption DEF PageTypeOK
  <1>3. e = 1 /\ Len(fetches) = 1 /\ RemoveAt(fetches, e) = <<>>
    BY <1>1, <1>2, RemovedLast DEF OutputsSound
  <1> DEFINE f == fetches[1]
             urls == [outputs EXCEPT ![k] = f.job]
  <1>4. /\ f \in FetchRun /\ f.todo # {} /\ f.job = result /\ asking = NoJob /\ result # NoJob
        /\ \A h \in f.todo : outputs[h] = NoJob
        /\ errors = 0 => f.live /\ \A h \in Kinds \ f.todo : outputs[h] = result
    <2>1. 1 \in DOMAIN fetches /\ fetches # <<>>  BY <1>3
    <2>2. f \in FetchRun  BY <1>2, <2>1
    <2> QED  BY <1>1, <2>1, <2>2 DEF OutputsSound, FetchSound, FetchRun, JobId, NoJob
  <1>5. UNCHANGED <<asking, result>>  BY DEF OutputArrives, OutputFails
  <1>6. CASE OutputArrives(e, k)
    <2>1. /\ k \in f.todo /\ outputs' = urls /\ leaked' = (leaked \/ outputs[k] # NoJob)
          /\ errors' = errors
      BY <1>3, <1>6 DEF OutputArrives, counted
    <2>2. ~leaked'  BY <1>1, <1>4, <2>1 DEF OutputsSound
    <2>3. OneJob'
      <3>1. \A h \in Kinds : outputs[h] \in {NoJob, result}  BY <1>1, <1>4 DEF OutputsSound, OneJob
      <3>2. \A h \in Kinds : outputs'[h] \in {NoJob, result}  BY <1>2, <1>4, <2>1, <3>1
      <3> QED  BY <1>5, <3>2 DEF OneJob
    <2>4. errors = 0 => \A h \in Kinds \ (f.todo \ {k}) : outputs'[h] = result
      BY <1>2, <1>4, <2>1
    <2>5. CASE f.todo = {k}
      <3>1. fetches' = <<>>  BY <1>3, <1>6, <2>5 DEF OutputArrives
      <3>2. FetchSound' /\ Len(fetches') <= 1  BY <3>1 DEF FetchSound
      <3>3. errors = 0 => shown' = ShownOf(urls)  BY <1>3, <1>4, <1>6, <2>5 DEF OutputArrives
      <3>4. Complete'
        BY <1>2, <1>5, <2>1, <2>4, <2>5, <3>3 DEF Complete, ShownOf, Shows
      <3> QED  BY <2>2, <2>3, <3>2, <3>4 DEF OutputsSound
    <2>6. CASE f.todo # {k}
      <3>1. fetches' = [fetches EXCEPT ![1].todo = @ \ {k}]  BY <1>3, <1>6, <2>6 DEF OutputArrives
      <3>2. /\ Len(fetches') = 1 /\ fetches'[1].todo = f.todo \ {k}
            /\ fetches'[1].job = f.job /\ fetches'[1].live = f.live
        <4>1. Len(fetches') = 1 /\ fetches'[1] = [f EXCEPT !.todo = @ \ {k}]
          BY <1>2, <1>3, <3>1
        <4> QED  BY <1>4, <4>1 DEF FetchRun
      <3>3. f.todo \ {k} # {}  BY <2>1, <2>6
      <3>4. \A h \in f.todo \ {k} : outputs'[h] = NoJob
        BY <1>2, <1>4, <2>1 DEF FetchRun
      <3>5. FetchSound'  BY <1>4, <1>5, <2>1, <2>4, <3>2, <3>3, <3>4 DEF FetchSound
      <3>6. Complete'  BY <3>2 DEF Complete
      <3> QED  BY <2>2, <2>3, <3>2, <3>5, <3>6 DEF OutputsSound
    <2> QED  BY <2>5, <2>6
  <1>7. CASE OutputFails(e, k)
    <2>1. /\ k \in f.todo /\ outputs' = outputs /\ leaked' = leaked /\ errors' # 0
      BY <1>2, <1>3, <1>7 DEF OutputFails, Fails
    <2>2. Complete' /\ OneJob' /\ ~leaked'
      BY <1>1, <1>5, <2>1 DEF Complete, OneJob, OutputsSound
    <2>3. CASE f.todo = {k}
      <3>1. fetches' = <<>>  BY <1>3, <1>7, <2>3 DEF OutputFails
      <3> QED  BY <2>2, <3>1 DEF FetchSound, OutputsSound
    <2>4. CASE f.todo # {k}
      <3>1. fetches' = [fetches EXCEPT ![1].todo = @ \ {k}, ![1].live = FALSE]
        BY <1>3, <1>7, <2>4 DEF OutputFails
      <3>2. Len(fetches') = 1 /\ fetches'[1].todo = f.todo \ {k} /\ fetches'[1].job = f.job
        <4>1. fetches' = [fetches EXCEPT ![1] = [f EXCEPT !.todo = @ \ {k}, !.live = FALSE]]
          BY <1>2, <1>3, <3>1
        <4>2. Len(fetches') = 1 /\ fetches'[1] = [f EXCEPT !.todo = @ \ {k}, !.live = FALSE]
          <5> HIDE DEF f
          <5> QED  BY <1>2, <1>3, <4>1
        <4> QED  BY <1>4, <4>2 DEF FetchRun
      <3>3. FetchSound'  BY <1>4, <1>5, <2>1, <2>4, <3>2 DEF FetchSound
      <3> QED  BY <2>2, <3>2, <3>3 DEF OutputsSound
    <2> QED  BY <2>3, <2>4
  <1> QED  BY <1>6, <1>7

LEMMA OutputsStep ==
    ASSUME PageTypeOK, PageKnown, PageOutputs, [PageNext]_pageVars
    PROVE  PageOutputs'
  <1>1. CASE OnFiles
    <2>1. PICK items \in Seq(QueuedItem) : SetBatch(items, 1)  BY <1>1, Dropped
    <2> QED  BY <1>1, <2>1, SetBatchSound DEF OnFiles, Later
  <1>2. CASE Clear \/ Unmount
    <2>1. Refetch(NoJob) /\ result' = NoJob /\ RevokeOutputs /\ leaked' = leaked /\ Later
      BY <1>2 DEF Clear, Unmount, counted, Later
    <2> QED  BY <2>1, RefetchSound DEF AnyJob
  <1>3. CASE \/ UNCHANGED pageVars \/ Reprocess \/ SetBackgroundMode \/ PollFails
             \/ \E n \in DOMAIN reruns : ReprocessFails(n)
             \/ \E j \in DOMAIN server_jobs : JobMoves(j) \/ JobRequeued(j)
    <2>1. Later

        BY <1>3 DEF Later, pageVars, Reprocess, SetBackgroundMode, PollFails, ReprocessFails, JobMoves,
         JobRequeued, Fails, counted
    <2>2. UNCHANGED <<following, outputs, leaked>> /\ (shown' = shown \/ shown' = ShownOf(outputs))
      BY <1>3 DEF pageVars, Reprocess, SetBackgroundMode, PollFails, ReprocessFails, JobMoves,
         JobRequeued, media, following
    <2> QED  BY <2>1, <2>2, OutputsStay
  <1>4. ASSUME NEW i \in DOMAIN batch, SetActiveIndex(i) PROVE PageOutputs'
    BY <1>4, SetBatchSound DEF SetActiveIndex, Later
  <1>5. ASSUME NEW l \in DOMAIN loops, Submitted(l) \/ SubmitFails(l) PROVE PageOutputs'
    <2>1. Later  BY <1>5 DEF Submitted, SubmitFails, Fails, Later
    <2>2. PICK items : Proceed(l, items)  BY <1>5 DEF Submitted, SubmitFails
    <2> QED  BY <2>1, <2>2, ProceedSound
  <1>6. ASSUME NEW n \in DOMAIN reruns, Reprocessed(n) PROVE PageOutputs'
    <2>1. Later /\ UNCHANGED <<outputs, shown, leaked>>  BY <1>6 DEF Reprocessed, counted, Later
    <2>2. (\E b : SetBatch(b, active)) \/ UNCHANGED following  BY <1>6 DEF Reprocessed
    <2> QED  BY <2>1, <2>2, SetBatchSound, OutputsStay
  <1>7. CASE Polled
    <2>1. poll.job \in JobId /\ server_jobs[poll.job].status \in Status
      BY <1>7, PolledTyped DEF Polled
    <2> DEFINE s == [id |-> poll.job, status |-> server_jobs[poll.job].status]
    <2>2. s \in SeenOrNothing  BY <2>1 DEF SeenOrNothing, JobSeen
    <2>3. Follow(s) /\ Later /\ UNCHANGED <<outputs, shown, leaked>>
      BY <1>7 DEF Polled, counted, Later
    <2> HIDE DEF s
    <2> QED  BY <2>2, <2>3, FollowSound
  <1>8. CASE ResultArrives  BY <1>8, ResultSound
  <1>9. CASE ResultFails
    <2>1. errors' # 0 /\ asking' = NoJob /\ UNCHANGED <<fetches, result, outputs, shown, overlapped, leaked>>
      BY <1>9, FailsTyped DEF ResultFails
    <2> QED  BY <2>1 DEF PageOutputs, OutputsSound, OneJob, FetchSound, Complete
  <1>10. ASSUME NEW e \in DOMAIN fetches, NEW k \in Kinds, OutputArrives(e, k) \/ OutputFails(e, k)
         PROVE  PageOutputs'
    BY <1>10, OutputSound
  <1> QED  BY <1>1, <1>2, <1>3, <1>4, <1>5, <1>6, <1>7, <1>8, <1>9, <1>10
           DEF PageNext, User, Answers, Fetched, Server

-----------------------------------------------------------------------------
(* The theorems *)

PageInv == PageTypeOK /\ PageKnown /\ PageAlone /\ PageOutputs

LEMMA PageStarts == PageInit => PageInv
  <1> SUFFICES ASSUME PageInit PROVE PageInv
    OBVIOUS
  <1>0. MaxJobs \in Nat /\ MaxClicks \in Nat /\ MaxErrors \in Nat  BY StudioAssumption
  <1>1. /\ mounted \in BOOLEAN /\ busy \in BOOLEAN /\ cleared \in BOOLEAN
        /\ overlapped \in BOOLEAN /\ leaked \in BOOLEAN
    BY Zenon DEF PageInit
  <1>9. poll_error \in AnyJob  BY DEF PageInit, AnyJob
  <1>2. ServerTyped /\ QueueTyped  BY <1>0, <1>1 DEF PageInit, ServerTyped, QueueTyped, AnyJob
  <1>3. PollTyped /\ CountTyped
    BY <1>0, <1>1, <1>9 DEF PageInit, PollTyped, CountTyped, SeenOrNothing, AnyJob
  <1>8. FollowTyped  BY <1>1 DEF PageInit, FollowTyped, AnyJob
  <1>4. UrlsTyped  BY <1>1 DEF PageInit, UrlsTyped, NoOutputs, NoUrl, AnyJob
  <1>5. PageKnown
    BY DEF PageInit, PageKnown, BatchKnown, ItemsKnown, LoopsKnown, PollKnown, LatestKnown, NoJob
  <1>6. PageAlone
    BY DEF PageInit, PageAlone, OneCall, BatchLatest, Distinct, InFlight
  <1>7. PageOutputs
    BY DEF PageInit, PageOutputs, OutputsSound, OneJob, FetchSound, Complete, NoOutputs
  <1> QED  BY <1>2, <1>3, <1>4, <1>5, <1>6, <1>7, <1>8, TypesSplit DEF PageInv, PageTypeOK

LEMMA PageStep == PageInv /\ [PageNext]_pageVars => PageInv'
  BY TypeStep, KnownStep, AloneStep, OutputsStep DEF PageInv, PageTypeOK

LEMMA PageInvHolds == PageSpec => []PageInv
  <1> QED  BY PageStarts, PageStep, PTL DEF PageSpec

\* The page keeps its types, and unless Clear is pressed with a request in flight every
\* item of the batch shows its latest job, of its own file, whatever the order in which
\* the submit loops, the re-runs and their failures are answered.
THEOREM BatchesKeepTheirJobs == PageSpec => []PageIsSound
  <1>1. PageInv => PageIsSound
    <2> SUFFICES ASSUME PageInv PROVE PageIsSound
      OBVIOUS
    <2>1. CASE mounted /\ ~cleared
      <3>1. ASSUME NEW i \in DOMAIN batch PROVE batch[i].file \in Files
        <4>1. batch[i] \in QueuedItem  BY DEF PageInv, PageTypeOK
        <4> QED  BY <4>1 DEF QueuedItem
      <3> QED
        BY <2>1, <3>1 DEF PageInv, PageTypeOK, PageKnown, LatestKnown, PageAlone, BatchLatest,
                   PageIsSound, BatchKeepsJobs
    <2>2. CASE ~mounted \/ cleared
      BY <2>2 DEF PageInv, PageTypeOK, PageAlone, PageIsSound, BatchKeepsJobs
    <2> QED  BY <2>1, <2>2
  <1> QED  BY <1>1, PageInvHolds, PTL

\* Unless a job is left while its outputs are fetched, the URLs on the page are of one
\* job, that of the result panel when it has one, and none was overwritten without being
\* revoked; once nothing is waited for and nothing failed, the panel's picture works.
THEOREM PicturesAreOfOneJob == PageSpec => []OutputsAgree
  <1>1. PageInv => OutputsAgree
      BY DEF PageInv, PageOutputs, OutputsSound, OneJob, Complete, Shows, OutputsAgree, OneJobsOutputs,
       ShowsItsResult
  <1> QED  BY <1>1, PageInvHolds, PTL

-----------------------------------------------------------------------------
(* The rate limiter and the submission *)

USE LimiterAssumption, KeyAssumption

-----------------------------------------------------------------------------
(* Arithmetic *)

\* Rounding up, as the expiry does, never falls short.
LEMMA CeilEnough ==
    ASSUME NEW a \in Nat, NEW b \in Nat \ {0}
    PROVE  CeilDiv(a, b) \in Nat /\ CeilDiv(a, b) * b >= a
  <1> DEFINE n == a + b - 1
  <1>1. n \in Nat /\ n = (n \div b) * b + (n % b) /\ n % b \in 0 .. b - 1 /\ n \div b \in Nat
    BY Z3
  <1> QED  BY <1>1 DEF CeilDiv

LEMMA Monotone ==
    ASSUME NEW x \in Int, NEW y \in Int, x <= y
    PROVE  x * Refill <= y * Refill /\ x * Refill \in Int
  BY Z3

LEMMA Distributes ==
    ASSUME NEW x \in Int, NEW y \in Int
    PROVE  (x + y) * Refill = x * Refill + y * Refill /\ (x - y) * Refill = x * Refill - y * Refill
  BY Z3

LEMMA Thousand ==
    ASSUME NEW x \in Int
    PROVE  x * (1000 * Refill) = (1000 * x) * Refill
  BY Z3

LEMMA FillEnough == Fill \in Nat /\ (1000 * Fill) * Refill >= Capacity /\ Lifetime = 2000 * Fill + 1000
  <1>1. 1000 * Refill \in Nat \ {0}  OBVIOUS
  <1>2. Fill \in Nat /\ Fill * (1000 * Refill) >= Capacity  BY <1>1, CeilEnough DEF Fill
  <1>3. Fill * (1000 * Refill) = (1000 * Fill) * Refill  BY <1>2, Thousand
  <1> QED  BY <1>2, <1>3 DEF Lifetime

-----------------------------------------------------------------------------
(* One bucket *)

LEMMA LevelTyped ==
    ASSUME NEW b \in Bucket \cup RedisBucket \cup {NoBucket}, NEW t \in Int
    PROVE  Level(b, t) \in 0 .. Capacity
  <1>1. CASE b = NoBucket  BY <1>1 DEF Level
  <1>2. CASE b # NoBucket
    <2>1. b.tokens \in 0 .. Capacity /\ b.timestamp \in Int  BY <1>2 DEF Bucket, RedisBucket
    <2>2. Since(b, t) \in Nat  BY <2>1 DEF Since, Atleast
    <2>3. Since(b, t) * Refill \in Nat  BY <2>2, Z3
    <2> QED  BY <1>2, <2>1, <2>3 DEF Level, Atmost
  <1> QED  BY <1>1, <1>2

\* A check turns what the bucket holds into what it grants and what is left.
LEMMA Splits ==
    ASSUME NEW level \in 0 .. Capacity
    PROVE  /\ Left(level) \in 0 .. Capacity /\ Grant(level) \in Nat
           /\ Left(level) + Grant(level) = level
  BY DEF Left, Grant, Allowed

\* What a bucket has granted and still holds is its burst and what it was refilled, once
\* or twice; one that is gone had been refilled all it granted.
Paid(b, e) ==
    IF b = NoBucket THEN e.spent <= (now + e.behind) * Refill
    ELSE /\ b.timestamp <= now
         /\ e.spent + b.tokens <= Capacity + (b.timestamp + e.behind) * Refill

Entry(e, b, t) == [spent |-> e.spent + Grant(Level(b, t)), behind |-> e.behind + SetBack(b, t)]

LEMMA EntryTyped ==
    ASSUME now \in Nat, NEW e \in Account, NEW t \in Int, NEW b \in Bucket \cup RedisBucket \cup {NoBucket}
    PROVE  Entry(e, b, t) \in Account /\ Grant(Level(b, t)) \in Nat /\ SetBack(b, t) \in Nat
  <1>1. Grant(Level(b, t)) \in Nat  BY LevelTyped, Splits
  <1>2. SetBack(b, t) \in Nat  BY DEF SetBack, Atleast, Bucket, RedisBucket
  <1> QED  BY <1>1, <1>2 DEF Account, Entry

\* A check adds to the account what it grants and how far it sets the bucket back.
LEMMA WrittenPays ==
    ASSUME now \in Nat, NEW e \in Account, NEW t \in Int, t <= now,
           NEW b \in Bucket \cup RedisBucket \cup {NoBucket}, Paid(b, e),
           NEW c, c # NoBucket, c.tokens = Left(Level(b, t)), c.timestamp = t
    PROVE  Paid(c, Entry(e, b, t))
  <1> DEFINE level == Level(b, t)
             moved == SetBack(b, t)
             f == Entry(e, b, t)
  <1>1. e.spent \in Nat /\ e.behind \in Nat  BY DEF Account
  <1>2. level \in 0 .. Capacity  BY LevelTyped
  <1>3. /\ Left(level) \in Nat /\ Grant(level) \in Nat /\ Left(level) + Grant(level) = level
    BY <1>2, Splits
  <1>4. moved \in Nat  BY EntryTyped
  <1>5. f.spent = e.spent + Grant(level) /\ f.behind = e.behind + moved  BY DEF Entry
  <1>6. e.spent + level <= Capacity + (t + (e.behind + moved)) * Refill
    <2>1. CASE b = NoBucket
      <3>1. level = Capacity /\ moved = now - t  BY <2>1 DEF Level, SetBack, Atleast
      <3>2. t + (e.behind + moved) = now + e.behind  BY <1>1, <3>1
      <3>3. (now + e.behind) * Refill \in Int  BY <1>1, Monotone
      <3> HIDE DEF level, moved
      <3> QED  BY <1>1, <2>1, <3>1, <3>2, <3>3 DEF Paid
    <2>2. CASE b # NoBucket
      <3>1. b.tokens \in 0 .. Capacity /\ b.timestamp \in Int  BY <2>2 DEF Bucket, RedisBucket
      <3> DEFINE k == Since(b, t)
                 w == b.timestamp + e.behind
      <3>2. k \in Nat /\ t + moved = b.timestamp + k
        BY <2>2, <3>1 DEF Since, SetBack, Atleast
      <3>3. w \in Int /\ t + (e.behind + moved) = w + k  BY <1>1, <1>4, <3>1, <3>2
      <3>4. e.spent + b.tokens <= Capacity + w * Refill  BY <2>2 DEF Paid
      <3> HIDE DEF moved, w
      <3>5. level <= b.tokens + k * Refill
        <4>1. k * Refill \in Int  BY <3>2, Monotone
        <4> HIDE DEF k
        <4> QED  BY <2>2, <3>1, <4>1 DEF Level, Atmost, k
      <3> HIDE DEF k, level
      <3>6. (w + k) * Refill = w * Refill + k * Refill /\ w * Refill \in Int /\ k * Refill \in Int
        BY <3>2, <3>3, Distributes, Monotone
      <3> QED  BY <1>1, <1>2, <3>1, <3>3, <3>4, <3>5, <3>6
    <2> QED  BY <2>1, <2>2
  <1>7. (t + (e.behind + moved)) * Refill \in Int  BY <1>1, <1>4, Monotone
  <1> HIDE DEF level, moved, f
  <1>8. f.spent + Left(level) <= Capacity + (t + f.behind) * Refill
    BY <1>1, <1>2, <1>3, <1>5, <1>6, <1>7
  <1> QED  BY <1>5, <1>8 DEF Paid, f, level

LEMMA EnteredTyped ==
    ASSUME NEW book \in [Stores -> [Identities -> Account]], NEW s \in Stores, NEW i \in Identities,
           NEW b, NEW t, Entry(book[s][i], b, t) \in Account
    PROVE  LET new == Entered(book, s, i, b, t) IN
           /\ new \in [Stores -> [Identities -> Account]]
           /\ new[s][i] = Entry(book[s][i], b, t)
           /\ \A r \in Stores, j \in Identities : r # s \/ j # i => new[r][j] = book[r][j]
  <1> DEFINE e == Entry(book[s][i], b, t)
  <1>1. Entered(book, s, i, b, t) = [book EXCEPT ![s][i] = e]  BY DEF Entered, Entry
  <1> HIDE DEF e
  <1> QED  BY <1>1 DEF e

-----------------------------------------------------------------------------
(* The invariant of the limiter *)

\* A bucket's expiry is by the fastest clock, its timestamp by one that may be behind.
RedisKept ==
    \A i \in Identities :
        /\ Paid(redis[i], ledger["redis"][i])
        /\ redis[i] # NoBucket => redis[i].expires >= redis[i].timestamp + Lifetime

MemoryKept ==
    \A p \in Processes, i \in Identities :
        /\ Paid(memory[p][i], ledger[p][i])
        /\ ~redis_failed[p] => ledger[p][i].spent = 0

LimiterInv == LimiterTypeOK /\ RedisKept /\ MemoryKept

LEMMA BucketsTyped ==
    ASSUME LimiterTypeOK, NEW i \in Identities, NEW p \in Processes
    PROVE  /\ redis[i] \in RedisBucket \cup {NoBucket} /\ memory[p][i] \in Bucket \cup {NoBucket}
           /\ ledger["redis"][i] \in Account /\ ledger[p][i] \in Account /\ now \in Nat
           /\ p \in Stores /\ "redis" \in Stores
  BY DEF LimiterTypeOK, Stores

LEMMA LimiterStarts == LimiterInit => LimiterInv
  <1> SUFFICES ASSUME LimiterInit PROVE LimiterInv
    OBVIOUS
  <1> DEFINE zero == [spent |-> 0, behind |-> 0]
  <1>1. zero \in Account /\ zero.spent = 0 /\ zero.behind = 0  BY DEF Account
  <1>2. LimiterTypeOK  BY <1>1 DEF LimiterInit, LimiterTypeOK
  <1>3. now = 0 /\ (0 + 0) * Refill = 0  BY DEF LimiterInit
  <1>4. /\ \A i \in Identities : redis[i] = NoBucket /\ ledger["redis"][i] = zero
        /\ \A p \in Processes, i \in Identities : memory[p][i] = NoBucket /\ ledger[p][i] = zero
    BY DEF LimiterInit, Stores
  <1> HIDE DEF zero
  <1>5. RedisKept /\ MemoryKept  BY <1>1, <1>3, <1>4 DEF RedisKept, MemoryKept, Paid
  <1> QED  BY <1>2, <1>5 DEF LimiterInv

\* The script writes one bucket in Redis and its account.
LEMMA ScriptKeeps ==
    ASSUME LimiterInv, NEW i \in Identities, NEW t \in Int, t <= now, UpdateRedis(i, t), now' = now,
           \A j \in Identities : ledger'["redis"][j] =
                IF j = i THEN Entry(ledger["redis"][i], redis[i], t) ELSE ledger["redis"][j]
    PROVE  /\ redis' \in [Identities -> RedisBucket \cup {NoBucket}]
           /\ RedisKept'
  <1> DEFINE level == Level(redis[i], t)
             b == [tokens |-> Left(level), timestamp |-> t, expires |-> now + Lifetime]
             e == ledger["redis"][i]
  <1>1. redis[i] \in RedisBucket \cup {NoBucket} /\ e \in Account /\ now \in Nat
    BY DEF LimiterInv, LimiterTypeOK, Stores
  <1>2. Left(level) \in 0 .. Capacity  BY <1>1, LevelTyped, Splits
  <1>3. Lifetime \in Nat  BY FillEnough
  <1> HIDE DEF level, e
  <1>4. /\ b \in RedisBucket /\ b # NoBucket /\ b.tokens = Left(level) /\ b.timestamp = t
        /\ b.expires >= b.timestamp + Lifetime
    BY <1>1, <1>2, <1>3 DEF RedisBucket
  <1>5. redis' = [redis EXCEPT ![i] = b]  BY DEF UpdateRedis, level
  <1> HIDE DEF b
  <1>6. /\ redis' \in [Identities -> RedisBucket \cup {NoBucket}] /\ redis'[i] = b
        /\ \A j \in Identities \ {i} : redis'[j] = redis[j]
    BY <1>4, <1>5 DEF LimiterInv, LimiterTypeOK
  <1>7. Paid(redis[i], e)  BY DEF LimiterInv, RedisKept, e
  <1>8. Paid(b, Entry(e, redis[i], t))
    BY <1>1, <1>4, <1>7, WrittenPays DEF level
  <1>9. ASSUME NEW j \in Identities
        PROVE  /\ Paid(redis[j], ledger["redis"][j])'
               /\ redis'[j] # NoBucket => redis'[j].expires >= redis'[j].timestamp + Lifetime
    <2>1. CASE j = i  BY <1>4, <1>6, <1>8, <2>1 DEF Paid, e
    <2>2. CASE j # i  BY <1>6, <2>2 DEF Paid, LimiterInv, RedisKept
    <2> QED  BY <2>1, <2>2
  <1> QED  BY <1>6, <1>8, <1>9 DEF RedisKept, e

\* consume() writes one bucket of a process and its account.
LEMMA ConsumeKeeps ==
    ASSUME LimiterInv, NEW p \in Processes, NEW i \in Identities, NEW t \in Int, t <= now,
           UpdateMemory(p, i, t), now' = now, redis_failed'[p],
           \A q \in Processes : q # p => redis_failed'[q] = redis_failed[q],
           \A q \in Processes, j \in Identities : ledger'[q][j] =
                IF q = p /\ j = i THEN Entry(ledger[p][i], memory[p][i], t) ELSE ledger[q][j]
    PROVE  /\ memory' \in [Processes -> [Identities -> Bucket \cup {NoBucket}]]
           /\ MemoryKept'
  <1> DEFINE level == Level(memory[p][i], t)
             b == [tokens |-> Left(level), timestamp |-> t]
             e == ledger[p][i]
  <1>1. memory[p][i] \in Bucket \cup {NoBucket} /\ e \in Account /\ now \in Nat
    BY BucketsTyped DEF LimiterInv
  <1>2. Left(level) \in 0 .. Capacity  BY <1>1, LevelTyped, Splits
  <1> HIDE DEF level, e
  <1>3. b \in Bucket /\ b # NoBucket /\ b.tokens = Left(level) /\ b.timestamp = t
    BY <1>2 DEF Bucket
  <1>4. memory' = [memory EXCEPT ![p][i] = b]  BY DEF UpdateMemory, Consumed, level
  <1> HIDE DEF b
  <1>5. /\ memory' \in [Processes -> [Identities -> Bucket \cup {NoBucket}]] /\ memory'[p][i] = b
        /\ \A q \in Processes, j \in Identities : q # p \/ j # i => memory'[q][j] = memory[q][j]
    BY <1>3, <1>4 DEF LimiterInv, LimiterTypeOK
  <1>6. Paid(memory[p][i], e)  BY DEF LimiterInv, MemoryKept, e
  <1>7. Paid(b, Entry(e, memory[p][i], t))
    BY <1>1, <1>3, <1>6, WrittenPays DEF level
  <1>8. ASSUME NEW q \in Processes, NEW j \in Identities
        PROVE  Paid(memory[q][j], ledger[q][j])' /\ (~redis_failed'[q] => ledger'[q][j].spent = 0)
    <2>1. CASE q = p /\ j = i  BY <1>5, <1>7, <2>1 DEF Paid, e
    <2>2. CASE q # p \/ j # i  BY <1>5, <2>2 DEF Paid, LimiterInv, MemoryKept
    <2> QED  BY <2>1, <2>2
  <1> QED  BY <1>5, <1>7, <1>8 DEF MemoryKept, e

LEMMA CheckRedisKeeps ==
    ASSUME LimiterInv, NEW p \in Processes, NEW i \in Identities, NEW t \in Int, t <= now, NEW allowed,
           CheckRedis(p, i, t, allowed)
    PROVE  LimiterInv'
  <1>1. /\ UpdateRedis(i, t) /\ ledger' = Entered(ledger, "redis", i, redis[i], t)
        /\ UNCHANGED <<now, memory, redis_failed>>
    BY DEF CheckRedis
  <1>2. /\ Entry(ledger["redis"][i], redis[i], t) \in Account /\ "redis" \in Stores
        /\ ledger \in [Stores -> [Identities -> Account]]
    BY BucketsTyped, EntryTyped DEF LimiterInv, LimiterTypeOK
  <1>3. /\ ledger' \in [Stores -> [Identities -> Account]]
        /\ ledger'["redis"][i] = Entry(ledger["redis"][i], redis[i], t)
        /\ \A s \in Stores, j \in Identities :
             s # "redis" \/ j # i => ledger'[s][j] = ledger[s][j]
    BY <1>1, <1>2, EnteredTyped
  <1>4. \A j \in Identities : ledger'["redis"][j] =
            IF j = i THEN Entry(ledger["redis"][i], redis[i], t) ELSE ledger["redis"][j]
    BY <1>2, <1>3
  <1>5. redis' \in [Identities -> RedisBucket \cup {NoBucket}] /\ RedisKept'
    BY <1>1, <1>4, ScriptKeeps
  <1>6. LimiterTypeOK'  BY <1>1, <1>3, <1>5 DEF LimiterInv, LimiterTypeOK
  <1>7. \A q \in Processes, j \in Identities : ledger'[q][j] = ledger[q][j]
    BY <1>3 DEF Stores
  <1>8. MemoryKept'  BY <1>1, <1>7 DEF LimiterInv, MemoryKept, Paid
  <1> QED  BY <1>5, <1>6, <1>8 DEF LimiterInv

\* Memory answers alone: the call raised before the script ran, or there was none.
LEMMA MemoryKeeps ==
    ASSUME LimiterInv, NEW p \in Processes, NEW i \in Identities, NEW t \in Int, t <= now,
           UpdateMemory(p, i, t), UNCHANGED <<now, redis>>,
           redis_failed' \in [Processes -> BOOLEAN], redis_failed'[p],
           \A q \in Processes : q # p => redis_failed'[q] = redis_failed[q],
           ledger' = Entered(ledger, p, i, memory[p][i], t)
    PROVE  LimiterInv'
  <1>1. /\ Entry(ledger[p][i], memory[p][i], t) \in Account /\ p \in Stores /\ p # "redis"
        /\ ledger \in [Stores -> [Identities -> Account]]
    BY BucketsTyped, EntryTyped DEF LimiterInv, LimiterTypeOK
  <1>2. /\ ledger' \in [Stores -> [Identities -> Account]]
        /\ ledger'[p][i] = Entry(ledger[p][i], memory[p][i], t)
        /\ \A s \in Stores, j \in Identities : s # p \/ j # i => ledger'[s][j] = ledger[s][j]
    BY <1>1, EnteredTyped
  <1>3. \A q \in Processes, j \in Identities : ledger'[q][j] =
            IF q = p /\ j = i THEN Entry(ledger[p][i], memory[p][i], t) ELSE ledger[q][j]
    BY <1>2 DEF Stores
  <1>4. memory' \in [Processes -> [Identities -> Bucket \cup {NoBucket}]] /\ MemoryKept'
    BY <1>3, ConsumeKeeps
  <1>5. LimiterTypeOK'  BY <1>2, <1>4 DEF LimiterInv, LimiterTypeOK
  <1>6. \A j \in Identities : ledger'["redis"][j] = ledger["redis"][j]
    BY <1>1, <1>2 DEF Stores
  <1>7. RedisKept'  BY <1>6 DEF LimiterInv, RedisKept, Paid
  <1> QED  BY <1>4, <1>5, <1>7 DEF LimiterInv

LEMMA CheckFailsKeeps ==
    ASSUME LimiterInv, NEW p \in Processes, NEW i \in Identities, NEW t \in Int, t <= now, NEW allowed,
           CheckFails(p, i, t, allowed)
    PROVE  LimiterInv'
  <1>0. redis_failed' = [redis_failed EXCEPT ![p] = TRUE]  BY DEF CheckFails
  <1>1. UpdateMemory(p, i, t) /\ now' = now  BY DEF CheckFails
  <1>2. /\ redis_failed' \in [Processes -> BOOLEAN] /\ redis_failed'[p]
        /\ \A q \in Processes : q # p => redis_failed'[q] = redis_failed[q]
    BY <1>0 DEF LimiterInv, LimiterTypeOK
  <1>3. CASE ledger' = Entered(ledger, p, i, memory[p][i], t) /\ UNCHANGED redis
    BY <1>1, <1>2, <1>3, MemoryKeeps
  <1>4. CASE /\ UpdateRedis(i, t)
             /\ ledger' = Entered(Entered(ledger, "redis", i, redis[i], t), p, i, memory[p][i], t)
    <2> DEFINE middle == Entered(ledger, "redis", i, redis[i], t)
    <2>1. /\ Entry(ledger["redis"][i], redis[i], t) \in Account /\ "redis" \in Stores
          /\ Entry(ledger[p][i], memory[p][i], t) \in Account /\ p \in Stores /\ p # "redis"
          /\ ledger \in [Stores -> [Identities -> Account]]
      BY BucketsTyped, EntryTyped DEF LimiterInv, LimiterTypeOK
    <2>2. /\ middle \in [Stores -> [Identities -> Account]]
          /\ middle["redis"][i] = Entry(ledger["redis"][i], redis[i], t)
          /\ \A s \in Stores, j \in Identities :
               s # "redis" \/ j # i => middle[s][j] = ledger[s][j]
      BY <2>1, EnteredTyped
    <2>3. ledger' = Entered(middle, p, i, memory[p][i], t)  BY <1>4
    <2> HIDE DEF middle
    <2>4. middle[p][i] = ledger[p][i]  BY <2>1, <2>2
    <2>5. /\ ledger' \in [Stores -> [Identities -> Account]]
          /\ ledger'[p][i] = Entry(ledger[p][i], memory[p][i], t)
          /\ \A s \in Stores, j \in Identities : s # p \/ j # i => ledger'[s][j] = middle[s][j]
      BY <2>1, <2>2, <2>3, <2>4, EnteredTyped
    <2>6. \A j \in Identities : ledger'["redis"][j] =
              IF j = i THEN Entry(ledger["redis"][i], redis[i], t) ELSE ledger["redis"][j]
      BY <2>1, <2>2, <2>5
    <2>7. \A q \in Processes, j \in Identities : ledger'[q][j] =
              IF q = p /\ j = i THEN Entry(ledger[p][i], memory[p][i], t) ELSE ledger[q][j]
      BY <2>1, <2>2, <2>5 DEF Stores
    <2>8. redis' \in [Identities -> RedisBucket \cup {NoBucket}] /\ RedisKept'
      BY <1>1, <1>4, <2>6, ScriptKeeps
    <2>9. memory' \in [Processes -> [Identities -> Bucket \cup {NoBucket}]] /\ MemoryKept'
      BY <1>1, <1>2, <2>7, ConsumeKeeps
    <2>10. LimiterTypeOK'  BY <1>1, <1>2, <2>5, <2>8, <2>9 DEF LimiterInv, LimiterTypeOK
    <2> QED  BY <2>8, <2>9, <2>10 DEF LimiterInv
  <1> QED  BY <1>3, <1>4 DEF CheckFails

LEMMA CheckMemoryKeeps ==
    ASSUME LimiterInv, NEW p \in Processes, NEW i \in Identities, NEW t \in Int, t <= now, NEW allowed,
           CheckMemory(p, i, t, allowed)
    PROVE  LimiterInv'
  <1>1. /\ UpdateMemory(p, i, t) /\ ledger' = Entered(ledger, p, i, memory[p][i], t)
        /\ redis_failed[p] /\ UNCHANGED <<now, redis, redis_failed>>
    BY DEF CheckMemory
  <1>2. redis_failed' \in [Processes -> BOOLEAN]  BY <1>1 DEF LimiterInv, LimiterTypeOK
  <1> QED  BY <1>1, <1>2, MemoryKeeps

LEMMA TickKeeps == ASSUME LimiterInv, Tick  PROVE  LimiterInv' /\ now <= now'
  <1>1. LimiterTypeOK  BY DEF LimiterInv
  <1>2. now' \in Nat /\ now < now' /\ now \in Nat /\ UNCHANGED <<redis, memory, redis_failed, ledger>>
    BY <1>1 DEF Tick, LimiterTypeOK
  <1>3. LimiterTypeOK'  BY <1>1, <1>2 DEF LimiterTypeOK
  <1>4. ASSUME NEW b \in Bucket \cup RedisBucket \cup {NoBucket}, NEW e \in Account, Paid(b, e)
        PROVE  Paid(b, e)'
    <2>1. CASE b = NoBucket
      <3>1. e.spent \in Nat /\ e.behind \in Nat  BY DEF Account
      <3>2. now + e.behind \in Int /\ now' + e.behind \in Int /\ now + e.behind <= now' + e.behind
        BY <1>2, <3>1
      <3>3. /\ (now + e.behind) * Refill <= (now' + e.behind) * Refill
            /\ (now + e.behind) * Refill \in Int /\ (now' + e.behind) * Refill \in Int
        BY <3>2, Monotone
      <3> QED  BY <1>4, <2>1, <3>1, <3>3 DEF Paid
    <2>2. CASE b # NoBucket
      <3>1. b.timestamp \in Int  BY <2>2 DEF Bucket, RedisBucket
      <3> QED  BY <1>2, <1>4, <2>2, <3>1 DEF Paid
    <2> QED  BY <2>1, <2>2
  <1>5. RedisKept'
    <2> SUFFICES ASSUME NEW j \in Identities
                 PROVE  /\ Paid(redis[j], ledger["redis"][j])'
                        /\ redis'[j] # NoBucket => redis'[j].expires >= redis'[j].timestamp + Lifetime
      BY DEF RedisKept
    <2>1. redis[j] \in RedisBucket \cup {NoBucket} /\ ledger["redis"][j] \in Account
      BY <1>1 DEF LimiterTypeOK, Stores
    <2> QED  BY <1>2, <1>4, <2>1 DEF LimiterInv, RedisKept, Paid
  <1>6. MemoryKept'
    <2> SUFFICES ASSUME NEW q \in Processes, NEW j \in Identities
                 PROVE  Paid(memory[q][j], ledger[q][j])' /\ (~redis_failed'[q] => ledger'[q][j].spent = 0)
      BY DEF MemoryKept
    <2>1. memory[q][j] \in Bucket \cup {NoBucket} /\ ledger[q][j] \in Account
      BY <1>1, BucketsTyped
    <2> QED  BY <1>2, <1>4, <2>1 DEF LimiterInv, MemoryKept, Paid
  <1> QED  BY <1>2, <1>3, <1>5, <1>6 DEF LimiterInv

\* A bucket expires when what it granted has been refilled.
LEMMA ExpireKeeps ==
    ASSUME LimiterInv, NEW i \in Identities, Expire(i)  PROVE  LimiterInv' /\ now' = now
  <1>1. LimiterTypeOK  BY DEF LimiterInv
  <1>2. /\ redis[i] # NoBucket /\ now >= redis[i].expires /\ redis' = [redis EXCEPT ![i] = NoBucket]
        /\ UNCHANGED <<now, memory, redis_failed, ledger>>
    BY DEF Expire, Expired
  <1> DEFINE b == redis[i]
             e == ledger["redis"][i]
             w == b.timestamp + e.behind
             f == 1000 * Fill
  <1>3. /\ b \in RedisBucket /\ e \in Account /\ now \in Nat
        /\ redis'[i] = NoBucket /\ \A j \in Identities \ {i} : redis'[j] = redis[j]
    BY <1>1, <1>2 DEF LimiterTypeOK, Stores
  <1>4. LimiterTypeOK'  BY <1>1, <1>2 DEF LimiterTypeOK
  <1>5. e.spent \in Nat /\ e.behind \in Nat /\ b.tokens \in Nat /\ b.timestamp \in Int /\ b.expires \in Nat
    BY <1>3 DEF Account, RedisBucket
  <1>6. f \in Nat /\ f * Refill >= Capacity /\ f * Refill \in Int /\ Lifetime = 2000 * Fill + 1000
    BY FillEnough, Monotone
  <1>7. /\ e.spent + b.tokens <= Capacity + w * Refill /\ b.expires >= b.timestamp + Lifetime
    BY <1>2 DEF LimiterInv, RedisKept, Paid
  <1>8. w + f <= now + e.behind /\ w \in Int /\ now + e.behind \in Int
    BY <1>2, <1>3, <1>5, <1>6, <1>7, FillEnough
  <1> HIDE DEF w, f
  <1>9. e.spent <= (now + e.behind) * Refill
    <2>1. /\ (w + f) * Refill <= (now + e.behind) * Refill /\ (w + f) * Refill = w * Refill + f * Refill
          /\ w * Refill \in Int /\ (now + e.behind) * Refill \in Int
      BY <1>6, <1>8, Monotone, Distributes
    <2> HIDE DEF e, b
    <2> QED  BY <1>5, <1>6, <1>7, <2>1
  <1>10. RedisKept'
    <2> SUFFICES ASSUME NEW j \in Identities
                 PROVE  /\ Paid(redis[j], ledger["redis"][j])'
                        /\ redis'[j] # NoBucket => redis'[j].expires >= redis'[j].timestamp + Lifetime
      BY DEF RedisKept
    <2>1. CASE j = i  BY <1>2, <1>3, <1>9, <2>1 DEF Paid
    <2>2. CASE j # i  BY <1>2, <1>3, <2>2 DEF LimiterInv, RedisKept, Paid
    <2> QED  BY <2>1, <2>2
  <1>11. MemoryKept'  BY <1>2 DEF LimiterInv, MemoryKept, Paid
  <1> QED  BY <1>2, <1>4, <1>10, <1>11 DEF LimiterInv

LEMMA UnchangedKeeps == LimiterInv /\ UNCHANGED limiter => LimiterInv' /\ now' = now
  BY DEF LimiterInv, LimiterTypeOK, RedisKept, MemoryKept, Paid, limiter

-----------------------------------------------------------------------------
(* What the limiter promises *)

LEMMA PaidIsWithin == LimiterInv => WithinQuota
  <1> SUFFICES ASSUME LimiterInv PROVE WithinQuota
    OBVIOUS
  <1>1. LimiterTypeOK /\ now \in Nat  BY DEF LimiterInv, LimiterTypeOK
  <1>2. ASSUME NEW b \in Bucket \cup RedisBucket \cup {NoBucket}, NEW e \in Account, Paid(b, e)
        PROVE  e.spent <= Capacity + Refill * (now + e.behind)
    <2>1. e.spent \in Nat /\ e.behind \in Nat  BY DEF Account
    <2> DEFINE n == now + e.behind
    <2>2. n \in Int /\ n * Refill \in Int /\ Refill * n = n * Refill  BY <1>1, <2>1, Monotone
    <2>3. CASE b = NoBucket  BY <1>2, <2>1, <2>2, <2>3 DEF Paid
    <2>4. CASE b # NoBucket
      <3> DEFINE w == b.timestamp + e.behind
      <3>1. /\ b.timestamp \in Int /\ b.tokens \in Nat /\ b.timestamp <= now
            /\ e.spent + b.tokens <= Capacity + w * Refill
        BY <1>2, <2>4 DEF Bucket, RedisBucket, Paid
      <3>2. w \in Int /\ w <= n  BY <1>1, <2>1, <3>1
      <3> HIDE DEF w, n
      <3>3. w * Refill <= n * Refill /\ w * Refill \in Int  BY <2>2, <3>2, Monotone
      <3> QED  BY <2>1, <2>2, <3>1, <3>3 DEF n
    <2> QED  BY <2>3, <2>4
  <1>3. ASSUME NEW s \in Stores, NEW i \in Identities
        PROVE  ledger[s][i].spent <= Capacity + Refill * (now + ledger[s][i].behind)
    <2>0. ledger[s][i] \in Account  BY <1>1 DEF LimiterTypeOK
    <2>1. CASE s = "redis"
      <3>1. redis[i] \in RedisBucket \cup {NoBucket} /\ Paid(redis[i], ledger[s][i])
        BY <1>1, <2>1 DEF LimiterTypeOK, LimiterInv, RedisKept
      <3> QED  BY <1>2, <2>0, <3>1
    <2>2. CASE s \in Processes
      <3>1. memory[s][i] \in Bucket \cup {NoBucket} /\ Paid(memory[s][i], ledger[s][i])
        BY <1>1, <2>2 DEF LimiterTypeOK, LimiterInv, MemoryKept
      <3> QED  BY <1>2, <2>0, <3>1
    <2> QED  BY <2>1, <2>2 DEF Stores
  <1>4. \A p \in Processes, i \in Identities : ~redis_failed[p] => ledger[p][i].spent = 0
    BY DEF LimiterInv, MemoryKept
  <1> QED  BY <1>3, <1>4 DEF WithinQuota

LEMMA ClockTyped == ASSUME now \in Nat, NEW t \in Clock  PROVE  t \in Int /\ t <= now
  BY DEF Clock

LEMMA ExpiryIsFull == LimiterInv => ExpiresFull
  <1> SUFFICES ASSUME LimiterInv, NEW i \in Identities, NEW t \in Clock,
                      Expired(i), now - t <= 1000 * Fill
               PROVE  Level(redis[i], t) = Capacity
    BY DEF ExpiresFull
  <1> DEFINE b == redis[i]
             f == 1000 * Fill
             s == Since(b, t)
  <1>1. LimiterTypeOK /\ now \in Nat  BY DEF LimiterInv, LimiterTypeOK
  <1>2. b \in RedisBucket /\ b # NoBucket /\ now >= b.expires
    BY <1>1 DEF LimiterTypeOK, Expired
  <1>3. b.expires >= b.timestamp + Lifetime  BY <1>2 DEF LimiterInv, RedisKept
  <1>4. b.timestamp \in Int /\ b.expires \in Nat /\ b.tokens \in 0 .. Capacity  BY <1>2 DEF RedisBucket
  <1>5. t \in Int /\ t <= now  BY <1>1, ClockTyped
  <1>6. /\ f \in Nat /\ f * Refill >= Capacity /\ f * Refill \in Int
        /\ Lifetime = 2000 * Fill + 1000 /\ Fill \in Nat
    BY FillEnough, Monotone
  <1>7. s \in Nat /\ s >= f
    BY <1>1, <1>2, <1>3, <1>4, <1>5, <1>6 DEF Since, Atleast
  <1> HIDE DEF s, f
  <1>8. f * Refill <= s * Refill /\ s * Refill \in Int  BY <1>6, <1>7, Monotone
  <1> QED  BY <1>2, <1>4, <1>6, <1>8 DEF Level, Atmost, s

LEMMA WaitIsEnough == LimiterInv => RetryIsHonest
  <1> SUFFICES ASSUME LimiterInv, NEW i \in Identities, NEW p \in Processes, NEW t \in Clock,
                      NEW b \in {redis[i], memory[p][i]} \ {NoBucket},
                      ~Allowed(Level(b, t)), b.timestamp <= t
               PROVE  Allowed(Level(b, t + 1000 * RetryAfter(Level(b, t)) + 1))
    BY DEF RetryIsHonest
  <1> DEFINE level == Level(b, t)
             wait == RetryAfter(level)
             w == 1000 * wait + 1
  <1>1. LimiterTypeOK /\ now \in Nat  BY DEF LimiterInv, LimiterTypeOK
  <1>2. b \in Bucket \cup RedisBucket /\ b # NoBucket  BY <1>1, BucketsTyped
  <1>3. b.tokens \in 0 .. Capacity /\ b.timestamp \in Int  BY <1>2 DEF Bucket, RedisBucket
  <1>4. level \in 0 .. Capacity /\ level < Cost /\ t \in Int
    BY <1>1, <1>2, LevelTyped, ClockTyped DEF Allowed
  <1> DEFINE s == t - b.timestamp
  <1>5. s \in Nat /\ Since(b, t) = s  BY <1>3, <1>4 DEF Since, Atleast
  <1>6. s * Refill \in Int /\ level = b.tokens + s * Refill
    <2> HIDE DEF s
    <2>1. s * Refill \in Int  BY <1>5, Monotone
    <2> QED  BY <1>2, <1>3, <1>4, <1>5, <2>1 DEF Level, Atmost
  <1>7. wait \in Nat /\ w * Refill >= Cost - level
    <2> HIDE DEF level
    <2> DEFINE n == Cost - level + 999 * Refill
               q == n \div (1000 * Refill)
    <2>1. n \in Nat /\ 1000 * Refill \in Nat \ {0}  BY <1>4
    <2>2. q \in Nat /\ n < q * (1000 * Refill) + 1000 * Refill
      <3> HIDE DEF n
      <3> DEFINE d == 1000 * Refill
      <3>1. d \in Nat \ {0}  OBVIOUS
      <3> HIDE DEF d
      <3>2. n = (n \div d) * d + (n % d) /\ n % d \in 0 .. d - 1 /\ n \div d \in Nat
        BY <2>1, <3>1, Z3
      <3>3. q = n \div d  BY DEF d
      <3>4. q * d \in Int  BY <3>1, <3>2, <3>3, Z3
      <3>5. q \in Nat /\ n < q * d + d  BY <2>1, <3>1, <3>2, <3>3, <3>4
      <3> QED  BY <3>5 DEF d
    <2>3. wait \in Nat /\ wait >= q  BY <2>2 DEF RetryAfter, Atleast
    <2>4. q * (1000 * Refill) = (1000 * q) * Refill /\ (1000 * q) * Refill \in Int
      <3> HIDE DEF q
      <3> QED  BY <2>2, Thousand, Monotone
    <2>5. (1000 * q + 1) * Refill = (1000 * q) * Refill + 1 * Refill
      <3> HIDE DEF q
      <3> QED  BY <2>2, Distributes
    <2>6. Cost - level <= (1000 * q + 1) * Refill
      <3> HIDE DEF q
      <3> QED  BY <1>4, <2>2, <2>4, <2>5
    <2>7. (1000 * q + 1) * Refill <= w * Refill /\ (1000 * q + 1) * Refill \in Int /\ w * Refill \in Int
      <3>1. 1000 * q + 1 <= w /\ 1000 * q + 1 \in Int /\ w \in Int  BY <2>2, <2>3
      <3> HIDE DEF q, w
      <3> QED  BY <3>1, Monotone
    <2> HIDE DEF q, w, wait
    <2> QED  BY <1>4, <2>3, <2>6, <2>7
  <1>8. w \in Nat  BY <1>7
  <1> HIDE DEF level, w, wait
  <1>9. Since(b, t + w) = s + w  BY <1>3, <1>4, <1>5, <1>8 DEF Since, Atleast
  <1>10. (s + w) * Refill = s * Refill + w * Refill /\ w * Refill \in Int
    <2> HIDE DEF s
    <2> QED  BY <1>5, <1>8, Distributes, Monotone
  <1>11. b.tokens + (s + w) * Refill >= Cost /\ b.tokens + (s + w) * Refill \in Int
    <2> HIDE DEF s
    <2> QED  BY <1>3, <1>4, <1>6, <1>7, <1>10
  <1>12. Level(b, t + w) >= Cost
    <2> HIDE DEF s
    <2> QED  BY <1>2, <1>3, <1>9, <1>11 DEF Level, Atmost
  <1>13. t + 1000 * wait + 1 = t + w  BY <1>4, <1>7 DEF w
  <1> QED  BY <1>12, <1>13 DEF Allowed, level, wait

-----------------------------------------------------------------------------
(* Submission *)

\* Keys name jobs, and answers name the job of their key.
JobsKeyed ==
    /\ \A j, l \in DOMAIN jobs : jobs[j].key = jobs[l].key => j = l
    /\ \A j \in DOMAIN jobs, a \in Assets : jobs[j].key = [derived |-> a] => jobs[j].asset = a

AnswersKeyed ==
    \A r \in Requests :
        Answered(r, {200, 202}) =>
            /\ requests[r].job \in DOMAIN jobs
            /\ jobs[requests[r].job].key = IdempotencyKey(requests[r].body)

\* A stamp is of the past when it reaches a bucket.
StampsPast == \A r \in Requests : requests[r].pc = "stamped" => requests[r].stamp <= now

Inv == TypeOK /\ LimiterInv /\ StampsPast /\ JobsKeyed /\ AnswersKeyed /\ LosersHaveAJob

LEMMA Starts == Init => Inv
  <1> SUFFICES ASSUME Init PROVE Inv
    OBVIOUS
  <1>1. LimiterInv  BY LimiterStarts DEF Init
  <1>2. jobs = <<>> /\ \A r \in Requests : requests[r] = NotMade /\ requests[r].pc = "none"
    BY DEF Init, NotMade
  <1>3. TypeOK
    <2>1. requests \in [Requests -> {NotMade, Refused} \cup Stamped \cup Request \cup Answer]  BY DEF Init
    <2> QED  BY <1>1, <1>2, <2>1 DEF TypeOK, LimiterInv
  <1>4. \A r \in Requests : \A a : ~Answered(r, a)  BY <1>2 DEF Answered
  <1> QED  BY <1>1, <1>2, <1>3, <1>4 DEF Inv, StampsPast, JobsKeyed, AnswersKeyed, LosersHaveAJob

LEMMA RequestTyped ==
    ASSUME TypeOK, NEW r \in Requests
    PROVE  /\ requests[r].pc \in {"none", "stamped", "admitted", "missed", "answered"}
           /\ requests[r].pc = "stamped" => requests[r] \in Stamped
           /\ requests[r].pc \in {"admitted", "missed"} => requests[r] \in Request
           /\ requests[r].pc = "answered" /\ requests[r].status # 429 => requests[r] \in Answer
  BY DEF TypeOK, NotMade, Refused, Stamped, Request, Answer

\* A request that is on its way to the handler, or refused, disturbs no answer.
LEMMA EntersKeeps ==
    ASSUME Inv, NEW r \in Requests, NEW new \in {Refused} \cup Stamped \cup Request,
           requests' = [requests EXCEPT ![r] = new], requests[r].pc \in {"none", "stamped"},
           jobs' = jobs, LimiterInv', now' = now, new.pc = "stamped" => new.stamp <= now
    PROVE  Inv'
  <1>1. /\ requests'[r] = new /\ \A s \in Requests \ {r} : requests'[s] = requests[s]
        /\ requests' \in [Requests -> {NotMade, Refused} \cup Stamped \cup Request \cup Answer]
    BY DEF Inv, TypeOK
  <1>2. TypeOK'  BY <1>1 DEF Inv, TypeOK, LimiterInv
  <1>3. StampsPast'  BY <1>1 DEF Inv, StampsPast
  <1>4. ~Answered(r, {200, 202})' /\ ~Answered(r, {500})' /\ ~Answered(r, {202})'
    BY <1>1 DEF Answered, Refused, Stamped, Request
  <1>5. \A s \in Requests \ {r} : \A a : Answered(s, a)' = Answered(s, a)
    BY <1>1 DEF Answered
  <1>6. AnswersKeyed'
    BY <1>1, <1>4, <1>5 DEF Inv, AnswersKeyed, IdempotencyKey
  <1>7. LosersHaveAJob'
    BY <1>1, <1>4, <1>5 DEF Inv, LosersHaveAJob, IdempotencyKey, TheirJob, WithKey
  <1> QED  BY <1>2, <1>3, <1>6, <1>7 DEF Inv, JobsKeyed

LEMMA ArriveKeeps == ASSUME Inv, NEW r \in Requests, Arrive(r)  PROVE  Inv'
  <1>1. PICK p \in Processes, i \in Identities, t \in Clock :
          requests' = [requests EXCEPT ![r] =
             [pc |-> "stamped", process |-> p, identity |-> i, stamp |-> t,
              script |-> ~redis_failed[p]]]
    BY DEF Arrive
  <1> DEFINE new == [pc |-> "stamped", process |-> p, identity |-> i, stamp |-> t,
                     script |-> ~redis_failed[p]]
  <1>2. requests[r].pc = "none" /\ UNCHANGED <<limiter, jobs>>  BY DEF Arrive, NotMade
  <1>3. LimiterInv' /\ now' = now  BY <1>2, UnchangedKeeps DEF Inv
  <1>4. t \in Int /\ t <= now  BY ClockTyped DEF Inv, TypeOK, LimiterTypeOK
  <1>5. new \in Stamped /\ new.stamp <= now
    BY <1>4 DEF Stamped, Inv, TypeOK, LimiterTypeOK
  <1> HIDE DEF new
  <1> QED  BY <1>1, <1>2, <1>3, <1>5, EntersKeeps DEF new

LEMMA RateLimitKeeps == ASSUME Inv, NEW r \in Requests, RateLimit(r)  PROVE  Inv'
  <1> DEFINE q == requests[r]
  <1>1. q.pc = "stamped" /\ jobs' = jobs  BY DEF RateLimit
  <1>2. q \in Stamped /\ q.stamp <= now  BY <1>1, RequestTyped DEF Inv, StampsPast
  <1>3. q.process \in Processes /\ q.identity \in Identities /\ q.stamp \in Int
    BY <1>2 DEF Stamped
  <1>4. PICK allowed \in BOOLEAN :
         /\ Check(q.process, q.identity, q.stamp, q.script, allowed)
         /\ \/ requests' = [requests EXCEPT ![r] = Refused]
            \/ \E body \in Body :
                 requests' = [requests EXCEPT ![r] = [pc |-> "admitted", body |-> body]]
    BY DEF RateLimit
  <1>5. LimiterInv' /\ now' = now
    <2> HIDE DEF q
    <2>1. LimiterInv'
      BY <1>2, <1>3, <1>4, CheckRedisKeeps, CheckFailsKeeps, CheckMemoryKeeps DEF Inv, Check
    <2> QED  BY <1>4, <2>1 DEF Check, CheckRedis, CheckFails, CheckMemory
  <1>6. PICK new \in {Refused} \cup Request : requests' = [requests EXCEPT ![r] = new]
    BY <1>4 DEF Request
  <1>7. new.pc # "stamped"  BY DEF Refused, Request
  <1> QED  BY <1>1, <1>5, <1>6, <1>7, EntersKeeps

\* The request goes on, or is answered, and no job is added.
LEMMA LookupKeeps == ASSUME Inv, NEW r \in Requests, Lookup(r)  PROVE  Inv'
  <1>1. requests[r].pc = "admitted" /\ UNCHANGED <<limiter, jobs>>  BY DEF Lookup
  <1>2. LimiterInv' /\ now' = now  BY <1>1, UnchangedKeeps DEF Inv
  <1>3. requests[r] \in Request  BY <1>1, RequestTyped DEF Inv
  <1>4. /\ \A s \in Requests \ {r} : requests'[s] = requests[s]
        /\ requests'[r].body = requests[r].body
        /\ requests' \in [Requests -> {NotMade, Refused} \cup Stamped \cup Request \cup Answer]
        /\ \/ requests'[r].pc = "missed"
           \/ requests'[r].pc = "answered" /\ requests'[r].status = 200 /\ requests'[r].job \in TheirJob(r)
    <2>1. CASE TheirJob(r) = {}
      <3> DEFINE new == [requests[r] EXCEPT !.pc = "missed"]
      <3>1. new \in Request /\ new.pc = "missed" /\ new.body = requests[r].body
        BY <1>3 DEF Request
      <3>2. requests' = [requests EXCEPT ![r] = new]  BY <1>1, <2>1 DEF Lookup, Goto
      <3> HIDE DEF new
      <3> QED  BY <3>1, <3>2 DEF Inv, TypeOK
    <2>2. CASE TheirJob(r) # {}
      <3>1. PICK j \in TheirJob(r) : Reply(r, 200, j)  BY <2>2 DEF Lookup
      <3> DEFINE new == [pc |-> "answered", status |-> 200, body |-> requests[r].body, job |-> j]
      <3>2. j \in Nat  BY <3>1 DEF TheirJob, WithKey, Inv, TypeOK
      <3>3. /\ new \in Answer /\ new.pc = "answered" /\ new.status = 200
            /\ new.body = requests[r].body /\ new.job = j
        BY <1>3, <3>2 DEF Answer, Request
      <3>4. requests' = [requests EXCEPT ![r] = new]  BY <3>1 DEF Reply
      <3> HIDE DEF new
      <3> QED  BY <3>1, <3>3, <3>4 DEF Inv, TypeOK
    <2> QED  BY <2>1, <2>2
  <1>5. TypeOK'  BY <1>1, <1>2, <1>4 DEF Inv, TypeOK, LimiterInv
  <1>6. \A s \in Requests \ {r} : \A a : Answered(s, a)' = Answered(s, a)  BY <1>4 DEF Answered
  <1>7. ~Answered(r, {500})' /\ ~Answered(r, {202})'  BY <1>4 DEF Answered
  <1>8. AnswersKeyed'
    <2> SUFFICES ASSUME NEW s \in Requests, Answered(s, {200, 202})'
                 PROVE  /\ requests'[s].job \in DOMAIN jobs'
                        /\ jobs'[requests'[s].job].key = IdempotencyKey(requests'[s].body)
      BY DEF AnswersKeyed, IdempotencyKey
    <2>1. CASE s = r
      <3>1. requests'[r].job \in TheirJob(r)  BY <1>4, <2>1 DEF Answered
      <3> QED  BY <1>1, <1>4, <2>1, <3>1 DEF TheirJob, WithKey
    <2>2. CASE s # r
      BY <1>1, <1>4, <1>6, <2>2 DEF Inv, AnswersKeyed
    <2> QED  BY <2>1, <2>2
  <1>9. LosersHaveAJob'
    BY <1>1, <1>4, <1>6, <1>7 DEF Inv, LosersHaveAJob, IdempotencyKey, TheirJob, WithKey
  <1>10. StampsPast'  BY <1>2, <1>4 DEF Inv, StampsPast
  <1> QED  BY <1>1, <1>2, <1>5, <1>8, <1>9, <1>10 DEF Inv, JobsKeyed

\* The job is inserted, or the constraint refuses it because of the job that is there.
LEMMA InsertKeeps == ASSUME Inv, NEW r \in Requests, Insert(r)  PROVE  Inv'
  <1> DEFINE body == requests[r].body
             key  == IdempotencyKey(body)
  <1>1. requests[r].pc = "missed" /\ UNCHANGED limiter  BY DEF Insert
  <1>2. LimiterInv' /\ now' = now  BY <1>1, UnchangedKeeps DEF Inv
  <1>3. requests[r] \in Request /\ body \in Body  BY <1>1, RequestTyped DEF Inv, Request
  <1>4. ASSUME NEW status \in {202, 500}, NEW j \in Nat, Reply(r, status, j)
        PROVE  /\ \A s \in Requests \ {r} : requests'[s] = requests[s]
               /\ requests'[r].body = body /\ requests'[r].pc = "answered"
               /\ requests'[r].status = status /\ requests'[r].job = j
               /\ requests' \in [Requests -> {NotMade, Refused} \cup Stamped \cup Request \cup Answer]
    <2> DEFINE new == [pc |-> "answered", status |-> status, body |-> body, job |-> j]
    <2>1. new \in Answer /\ new.pc = "answered" /\ new.status = status /\ new.body = body /\ new.job = j
      BY <1>3 DEF Answer
    <2>2. requests' = [requests EXCEPT ![r] = new]  BY <1>4 DEF Reply
    <2> HIDE DEF new
    <2> QED  BY <2>1, <2>2 DEF Inv, TypeOK
  <1>5. CASE Conflicts(r)
    <2>1. /\ \A s \in Requests \ {r} : requests'[s] = requests[s]
          /\ requests'[r].body = body /\ requests'[r].pc = "answered" /\ requests'[r].status = 500
          /\ requests' \in [Requests -> {NotMade, Refused} \cup Stamped \cup Request \cup Answer] /\ jobs' = jobs
      BY <1>4, <1>5 DEF Insert
    <2>2. TypeOK'  BY <1>2, <2>1 DEF Inv, TypeOK, LimiterInv
    <2>3. \A s \in Requests \ {r} : \A a : Answered(s, a)' = Answered(s, a)  BY <2>1 DEF Answered
    <2>4. ~Answered(r, {200, 202})' /\ ~Answered(r, {202})'  BY <2>1 DEF Answered
    <2>5. AnswersKeyed'
      BY <2>1, <2>3, <2>4 DEF Inv, AnswersKeyed, IdempotencyKey
    <2>6. LosersHaveAJob'

        BY <1>5, <2>1, <2>3, <2>4 DEF Inv, LosersHaveAJob, IdempotencyKey, TheirJob, WithKey, Conflicts
    <2>7. StampsPast'  BY <1>2, <2>1 DEF Inv, StampsPast
    <2> QED  BY <1>2, <2>1, <2>2, <2>5, <2>6, <2>7 DEF Inv, JobsKeyed
  <1>6. CASE ~Conflicts(r)
    <2> DEFINE job == [asset |-> body.asset, key |-> key]
               n == Len(jobs) + 1
    <2>1. job \in Job /\ job.asset = body.asset /\ job.key = key
      BY <1>3 DEF Job, Body, Derived, IdempotencyKey
    <2>2. jobs \in Seq(Job) /\ jobs' = Append(jobs, job)  BY <1>6 DEF Insert, Inv, TypeOK
    <2> HIDE DEF job
    <2>3. /\ jobs' \in Seq(Job) /\ Len(jobs') = n /\ n \in Nat /\ DOMAIN jobs' = DOMAIN jobs \cup {n}
          /\ n \notin DOMAIN jobs /\ jobs'[n] = job /\ \A j \in DOMAIN jobs : jobs'[j] = jobs[j]
      BY <2>1, <2>2
    <2>4. /\ \A s \in Requests \ {r} : requests'[s] = requests[s]
          /\ requests'[r].body = body /\ requests'[r].pc = "answered"
          /\ requests'[r].status = 202 /\ requests'[r].job = n
          /\ requests' \in [Requests -> {NotMade, Refused} \cup Stamped \cup Request \cup Answer]
      BY <1>4, <1>6, <2>3 DEF Insert
    <2> HIDE DEF n
    <2>5. TypeOK'  BY <1>2, <2>3, <2>4 DEF Inv, TypeOK, LimiterInv
    <2>6. \A j \in DOMAIN jobs : jobs[j].key # key
      BY <1>6 DEF Conflicts, TheirJob, WithKey
    <2>7. JobsKeyed'
      <3>1. \A a \in Assets : key = [derived |-> a] => body.asset = a
        <4> SUFFICES ASSUME NEW a \in Assets, key = [derived |-> a] PROVE body.asset = a
          OBVIOUS
        <4>1. body.key = NoKey  BY <1>3 DEF IdempotencyKey, Body, Derived
        <4>2. key.derived = body.asset  BY <4>1 DEF IdempotencyKey
        <4> QED  BY <4>2
      <3>2. \A j, l \in DOMAIN jobs' : jobs'[j].key = jobs'[l].key => j = l
        BY <2>1, <2>3, <2>6 DEF Inv, JobsKeyed
      <3>3. ASSUME NEW j \in DOMAIN jobs', NEW a \in Assets, jobs'[j].key = [derived |-> a]
            PROVE  jobs'[j].asset = a
        <4>1. CASE j = n  BY <2>1, <2>3, <3>1, <3>3, <4>1
        <4>2. CASE j # n  BY <2>3, <3>3, <4>2 DEF Inv, JobsKeyed
        <4> QED  BY <4>1, <4>2
      <3> QED  BY <3>2, <3>3 DEF JobsKeyed
    <2>8. \A s \in Requests \ {r} : \A a : Answered(s, a)' = Answered(s, a)  BY <2>4 DEF Answered
    <2>9. AnswersKeyed'
      <3> SUFFICES ASSUME NEW s \in Requests, Answered(s, {200, 202})'
                   PROVE  /\ requests'[s].job \in DOMAIN jobs'
                          /\ jobs'[requests'[s].job].key = IdempotencyKey(requests'[s].body)
        BY DEF AnswersKeyed, IdempotencyKey
      <3>1. CASE s = r  BY <2>1, <2>3, <2>4, <3>1
      <3>2. CASE s # r
        <4>1. /\ requests[s].job \in DOMAIN jobs
              /\ jobs[requests[s].job].key = IdempotencyKey(requests[s].body)
          BY <2>8, <3>2 DEF Inv, AnswersKeyed
        <4> QED  BY <2>3, <2>4, <3>2, <4>1
      <3> QED  BY <3>1, <3>2
    <2>10. LosersHaveAJob'
      <3>1. ASSUME NEW s \in Requests, Answered(s, {500})' PROVE (TheirJob(s) # {})'
        <4>1. s # r  BY <2>4, <3>1 DEF Answered
        <4>2. PICK j \in TheirJob(s) : TRUE
          BY <2>8, <3>1, <4>1 DEF Inv, LosersHaveAJob
        <4>3. j \in TheirJob(s)'
          BY <2>3, <2>4, <4>1, <4>2 DEF TheirJob, WithKey
        <4> QED  BY <4>3
      <3>2. ASSUME NEW s \in Requests, NEW q \in Requests, Answered(s, {202})', Answered(q, {202})',
                   IdempotencyKey(requests'[s].body) = IdempotencyKey(requests'[q].body)
            PROVE  s = q
        <4>1. \A x \in Requests \ {r} :
                Answered(x, {202})' => IdempotencyKey(requests'[x].body) # key
          <5> SUFFICES ASSUME NEW x \in Requests \ {r}, Answered(x, {202})'
                       PROVE  IdempotencyKey(requests'[x].body) # key
            OBVIOUS
          <5>1. Answered(x, {202}) /\ requests'[x] = requests[x]  BY <2>4, <2>8
          <5>2. Answered(x, {200, 202})  BY <5>1 DEF Answered
          <5> QED  BY <2>6, <5>1, <5>2 DEF Inv, AnswersKeyed
        <4>2. CASE s = r  BY <2>4, <3>2, <4>1, <4>2
        <4>3. CASE q = r  BY <2>4, <3>2, <4>1, <4>3
        <4>4. CASE s # r /\ q # r
          BY <2>4, <2>8, <3>2, <4>4 DEF Inv, LosersHaveAJob
        <4> QED  BY <4>2, <4>3, <4>4
      <3> QED  BY <3>1, <3>2 DEF LosersHaveAJob, IdempotencyKey
    <2>11. StampsPast'  BY <1>2, <2>4 DEF Inv, StampsPast
    <2> QED  BY <1>2, <2>5, <2>7, <2>9, <2>10, <2>11 DEF Inv
  <1> QED  BY <1>5, <1>6

LEMMA StepKeeps == Inv /\ [Next]_vars => Inv'
  <1> SUFFICES ASSUME Inv, [Next]_vars PROVE Inv'
    OBVIOUS
  <1>1. CASE UNCHANGED <<requests, jobs>> /\ LimiterInv' /\ now <= now'
    <2>1. TypeOK'  BY <1>1 DEF Inv, TypeOK, LimiterInv
    <2>2. StampsPast'
      <3> SUFFICES ASSUME NEW r \in Requests, requests[r].pc = "stamped" PROVE requests[r].stamp <= now'
        BY <1>1 DEF StampsPast
      <3>1. requests[r].stamp \in Int /\ requests[r].stamp <= now
        BY RequestTyped DEF Inv, StampsPast, Stamped
      <3>2. now \in Nat /\ now' \in Nat  BY <1>1 DEF Inv, LimiterInv, LimiterTypeOK
      <3> QED  BY <1>1, <3>1, <3>2
    <2> QED
      BY <1>1, <2>1, <2>2 DEF Inv, JobsKeyed, AnswersKeyed, LosersHaveAJob, Answered,
                              IdempotencyKey, TheirJob, WithKey
  <1>2. CASE UNCHANGED vars
    <2>1. LimiterInv' /\ now' = now  BY <1>2, UnchangedKeeps DEF vars, Inv
    <2>2. now <= now'  BY <2>1 DEF Inv, LimiterInv, LimiterTypeOK
    <2> QED  BY <1>1, <1>2, <2>1, <2>2 DEF vars
  <1>3. CASE \E r \in Requests : Arrive(r) \/ RateLimit(r) \/ Lookup(r) \/ Insert(r)
    BY <1>3, ArriveKeeps, RateLimitKeeps, LookupKeeps, InsertKeeps
  <1>4. CASE (Tick \/ \E i \in Identities : Expire(i)) /\ UNCHANGED <<requests, jobs>>
    <2>1. LimiterInv' /\ (now <= now' \/ now' = now)  BY <1>4, TickKeeps, ExpireKeeps DEF Inv
    <2>2. now <= now'  BY <2>1 DEF Inv, LimiterInv, LimiterTypeOK
    <2> QED  BY <1>1, <1>4, <2>1, <2>2
  <1> QED  BY <1>2, <1>3, <1>4 DEF Next

LEMMA InvHolds == Spec => []Inv
  <1> QED  BY Starts, StepKeeps, PTL DEF Spec

\* Buckets, requests and jobs are of their types.
THEOREM SubmissionTyped == Spec => []TypeOK
  <1>1. Inv => TypeOK  BY DEF Inv
  <1> QED  BY <1>1, InvHolds, PTL

\* No bucket grants more than its burst, its refill and what stamps out of order made it
\* refill twice, also across expiries: what a bucket that expires had granted is refilled
\* by then; and only processes that have given Redis up grant from buckets of their own.
THEOREM QuotaHolds == Spec => []WithinQuota
  <1>1. Inv => WithinQuota  BY PaidIsWithin DEF Inv
  <1> QED  BY <1>1, InvHolds, PTL

\* A bucket expires only when every process within one fill of the clock would find
\* it full.
THEOREM ExpiryHolds == Spec => []ExpiresFull
  <1>1. Inv => ExpiresFull  BY ExpiryIsFull DEF Inv
  <1> QED  BY <1>1, InvHolds, PTL

\* The Retry-After header is less than a millisecond too early.
THEOREM RetryHolds == Spec => []RetryIsHonest
  <1>1. Inv => RetryIsHonest  BY WaitIsEnough DEF Inv
  <1> QED  BY <1>1, InvHolds, PTL

\* Requests with one key are answered with one job, and one of an asset.
THEOREM KeysAreUnique == Spec => []OneJobPerKey
  <1>1. Inv => OneJobPerKey
    <2> SUFFICES ASSUME Inv PROVE OneJobPerKey
      OBVIOUS
    <2>1. ASSUME NEW r \in Requests, NEW s \in Requests, Answered(r, {200, 202}), Answered(s, {200, 202}),
                 IdempotencyKey(requests[r].body) = IdempotencyKey(requests[s].body)
          PROVE  requests[r].job = requests[s].job
      BY <2>1 DEF Inv, AnswersKeyed, JobsKeyed
    <2>2. ASSUME NEW r \in Requests, Answered(r, {200, 202}), requests[r].body.key = NoKey
          PROVE  jobs[requests[r].job].asset = requests[r].body.asset
      <3>1. requests[r].body \in Body  BY <2>2, RequestTyped DEF Inv, Answered, Answer
      <3>2. IdempotencyKey(requests[r].body) = [derived |-> requests[r].body.asset]
        BY <2>2 DEF IdempotencyKey
      <3> QED  BY <2>2, <3>1, <3>2 DEF Inv, AnswersKeyed, JobsKeyed, Body
    <2> QED  BY <2>1, <2>2 DEF OneJobPerKey
  <1> QED  BY <1>1, InvHolds, PTL

\* A request refused by the unique constraint has a job to be found by a retry, and one
\* request of a key created it.
THEOREM LosersFindAJob == Spec => []LosersHaveAJob
  <1>1. Inv => LosersHaveAJob  BY DEF Inv
  <1> QED  BY <1>1, InvHolds, PTL

\* The limiter never forgets a bucket that is not full, nor asks for a wait that is too
\* short by a millisecond.
THEOREM TimeIsKept == Spec => []KeepsTime
  BY ExpiryHolds, RetryHolds, PTL DEF KeepsTime

\* Identical requests end with one job, whichever of them wins the race to insert it.
THEOREM OneJobOfAKey == Spec => []OneJobForAll
  BY KeysAreUnique, LosersFindAJob, PTL DEF OneJobForAll
=============================================================================
