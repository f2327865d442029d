------------------------- MODULE JobLifecycleProofs -------------------------
(***************************************************************************)
(* Theorems about JobLifecycle, for every set of workers and outputs, every *)
(* retry cap and every bound on the faults.                                *)
(***************************************************************************)
EXTENDS JobLifecycle, FiniteSetTheorems, TLAPS

\* Every column and local variable keeps its type through every handler.
LEMMA TypeInitial == Init => TypeOK
<1> SUFFICES ASSUME Init PROVE TypeOK
  OBVIOUS
<1> USE ConstantsAssumption DEF Init, ConstantsAssumption, NoTask, ApiTask
<1>1. runs \in [DOMAIN runs -> RunStatus] /\ DOMAIN runs \subseteq Nat
  OBVIOUS
<1>2. pc \in [Workers -> Executing \cup {"idle", "finishing"}]
  OBVIOUS
<1>3. held \in [Workers -> Message]
  BY DEF Message, NoMessage
<1>4. seen \in [Workers -> [status : JobStatus \cup {"absent"}, attempts : Nat]]
  BY DEF NothingSeen
<1>5. mine \in [Workers -> Nat] /\ put \in [Workers -> SUBSET Outputs]
  OBVIOUS
<1>7. trial \in [Workers -> [at : {"none", "set", "loop", "over"}, batch : Nat]]
  BY DEF NoTrial
<1>6. failure \in [Workers -> Failure]
  BY DEF Failure
<1> QED
  BY <1>1, <1>2, <1>3, <1>4, <1>5, <1>6, <1>7 DEF TypeOK

\* What a fault uses up is counted in Nat.
LEMMA FaultTyped == TypeOK /\ Fault => used' \in [faults : Nat, copies : Nat, cancels : Nat, sweeps : Nat]
BY DEF TypeOK, Fault

LEMMA TypeStep == TypeOK /\ [Next]_vars => TypeOK'
<1> SUFFICES ASSUME TypeOK, [Next]_vars PROVE TypeOK'
  OBVIOUS
<1> USE ConstantsAssumption DEF TypeOK, ConstantsAssumption, jobRow, broker, execs,
       JobStatus, Terminal, RunStatus, Failure, Retryable, Executing, Live, Message
<1>0. Fault => used' \in [faults : Nat, copies : Nat, cancels : Nat, sweeps : Nat]
  BY FaultTyped
<1>1. CASE Api
  <2>1. CASE InsertJob
    BY <2>1 DEF InsertJob
  <2>2. CASE MarkQueued
    BY <2>2 DEF MarkQueued
  <2>3. CASE Publish
    BY <2>3 DEF Publish, NewMessage, ApiTask
  <2>4. CASE PublishFails
    BY <1>0, <2>4 DEF PublishFails, NewMessage, ApiTask
  <2>5. CASE StoreTaskId
    BY <2>5 DEF StoreTaskId, ApiTask
  <2>6. CASE ReturnToPending
    BY <2>6 DEF ReturnToPending
  <2>7. CASE ApiDies
    BY <1>0, <2>7 DEF ApiDies
  <2> QED
    BY <1>1, <2>1, <2>2, <2>3, <2>4, <2>5, <2>6, <2>7 DEF Api
<1>2. CASE Broker
  <2>1. CASE LoseMessage
    BY <1>0, <2>1 DEF LoseMessage
  <2>2. CASE DiscardRevoked
    BY <2>2 DEF DiscardRevoked
  <2>3. ASSUME NEW w \in Workers, RestoreCopy(w) PROVE TypeOK'
    BY <2>3, SMTT(30) DEF RestoreCopy
  <2> QED
    BY <1>2, <2>1, <2>2, <2>3 DEF Broker
<1>3. CASE Owner
  <2>1. CASE CancelLoad
    BY <2>1, SMTT(30) DEF CancelLoad
  <2>2. CASE CancelCommit
    BY <2>2 DEF CancelCommit
  <2>3. CASE Revoke
    BY <2>3 DEF Revoke, NoTask
  <2> QED
    BY <1>3, <2>1, <2>2, <2>3 DEF Owner
<1>4. CASE Sweeper
  <2>1. CASE SweepScan
    BY <2>1, SMTT(30) DEF SweepScan, NoTask
  <2>2. CASE SweepPublish
    <3>1. NewMessage(sent + 1) \in Message
      BY DEF NewMessage
    <3>2. sweeper' \in [pc : {"idle", "scanned", "sent"},
                         status : JobStatus \cup {"absent"}, task : Nat]
      BY <2>2 DEF SweepPublish
    <3>3. queue' \subseteq Message
      BY <2>2, <3>1 DEF SweepPublish
    <3>4. UNCHANGED <<status, attempts, result, celery_task_id, batch_size, stale, runs,
                      stored, revoked, pc, held, seen, mine, trial, put, failure, api,
                      canceller, used>>
      BY <2>2 DEF SweepPublish
    <3>5. sent' \in Nat
      BY <2>2 DEF SweepPublish
    <3> QED
      BY <3>2, <3>3, <3>4, <3>5
  <2>3. CASE SweepCommit
    BY <2>3 DEF SweepCommit, NoTask
  <2>4. CASE SweepFails
    BY <1>0, <2>4 DEF SweepFails, NoTask
  <2>5. CASE CutoffPasses
    BY <2>5 DEF CutoffPasses
  <2> QED
    BY <1>4, <2>1, <2>2, <2>3, <2>4, <2>5 DEF Sweeper
<1>5. ASSUME NEW w \in Workers, Worker(w) PROVE TypeOK'
  <2> USE DEF Finish, Drop, Forget, NothingSeen, NoTrial, NoMessage, NoTask
  <2>1. CASE Receive(w)
    BY <2>1 DEF Receive, Override
  <2>2. CASE Skip(w)
    BY <2>2 DEF Skip
  <2>3. CASE Load(w)
    BY <2>3 DEF Load
  <2>4. CASE Start(w)
    <3>1. DOMAIN runs' \subseteq Nat /\ runs' \in [DOMAIN runs' -> RunStatus]
      BY <2>4 DEF Start
    <3>2. /\ mine' \in [Workers -> Nat]
          /\ seen' \in [Workers -> [status : JobStatus \cup {"absent"}, attempts : Nat]]
      BY <2>4 DEF Start
    <3>6. seen[w].attempts \in Nat
      OBVIOUS
    <3>7. /\ attempts' = seen[w].attempts + 1 /\ stale' = FALSE
          /\ status' = IF seen[w].status = "running" THEN status ELSE "running"
      BY <2>4 DEF Start
    <3>8. status' \in {status, "running"}
      BY <3>7
    <3>9. attempts' \in Nat
      BY <3>6, <3>7
    <3>3. status' \in JobStatus \cup {"absent"} /\ stale' \in BOOLEAN /\ attempts' \in Nat
      BY <3>7, <3>8, <3>9
    <3>4. pc' \in [Workers -> Executing \cup {"idle", "finishing"}]
      BY <2>4 DEF Start
    <3>5. UNCHANGED <<result, celery_task_id, batch_size, stored, queue, sent, revoked, held,
                      trial, put, failure, api, canceller, sweeper, used>>
      BY <2>4 DEF Start
    <3> QED
      BY <3>1, <3>2, <3>3, <3>4, <3>5
  <2>5. CASE StartConflicts(w)
    BY <2>5 DEF StartConflicts
  <2>6. ASSUME NEW o \in Outputs, PutOutput(w, o) PROVE TypeOK'
    BY <2>6 DEF PutOutput, Loops, EnterLoop, ShrinkBatch, LeaveLoop, MoveTrial, ResultKey
  <2>7. CASE RecordSuccess(w)
    <3>1. DOMAIN runs' \subseteq Nat /\ runs' \in [DOMAIN runs' -> RunStatus]
      BY <2>7 DEF RecordSuccess, CloseRun
    <3>2. status' \in JobStatus /\ result' \in Nat
      BY <2>7 DEF RecordSuccess, Manifest
    <3>3. pc' \in [Workers -> Executing \cup {"idle", "finishing"}]
      BY <2>7 DEF RecordSuccess
    <3>4. UNCHANGED <<attempts, celery_task_id, batch_size, stale, stored, queue, sent, revoked,
                      held, seen, mine, put, failure, api, canceller, sweeper, used>>
      BY <2>7 DEF RecordSuccess
    <3>5. trial' \in [Workers -> [at : {"none", "set", "loop", "over"}, batch : Nat]]
      BY <2>7 DEF RecordSuccess
    <3> QED
      BY <3>1, <3>2, <3>3, <3>4, <3>5
  <2>8. CASE RecordFailure(w)
    <3>1. DOMAIN runs' \subseteq Nat /\ runs' \in [DOMAIN runs' -> RunStatus]
      BY <2>8 DEF RecordFailure, CloseRun
    <3>2. status' \in JobStatus \cup {"absent"} /\ failure' \in [Workers -> Failure]
      BY <2>8 DEF RecordFailure
    <3> QED
      BY <2>8, <3>1, <3>2 DEF RecordFailure
  <2>9. CASE Return(w)
    BY <2>9 DEF Return
  <2>10. CASE MarkFailed(w)
    BY <2>10 DEF MarkFailed
  <2>11. CASE RaisePermanent(w)
    BY <2>11 DEF RaisePermanent
  <2>12. CASE Retry(w)
    <3>1. RetryMessage(w) \in Message
      BY DEF RetryMessage, Halve
    <3> QED
      BY <2>12, <3>1 DEF Retry, RetryPublished
  <2>13. CASE Ack(w)
    BY <2>13 DEF Ack
  <2>14. CASE CommitFails(w)
    BY <1>0, <2>14 DEF CommitFails
  <2>15. CASE TimeLimitOnReturn(w)
    BY <2>15 DEF TimeLimitOnReturn
  <2>16. CASE RetryLost(w)
    BY <1>0, <2>16 DEF RetryLost
  <2>17. CASE WorkerLost(w)
    BY <1>0, <2>17 DEF WorkerLost
  <2>18. CASE HardLimit(w)
    BY <1>0, <2>18 DEF HardLimit
  <2>19. CASE Loops(w)
    <3>1. trial' \in [Workers -> [at : {"none", "set", "loop", "over"}, batch : Nat]]
      BY <2>19 DEF Loops, EnterLoop, ShrinkBatch, LeaveLoop, MoveTrial, Halve
    <3> QED
      BY <2>19, <3>1 DEF Loops, EnterLoop, ShrinkBatch, LeaveLoop, MoveTrial
  <2> QED
    BY <1>5, <2>1, <2>2, <2>3, <2>4, <2>5, <2>6, <2>7, <2>8, <2>9, <2>10, <2>11,
       <2>12, <2>13, <2>14, <2>15, <2>16, <2>17, <2>18, <2>19 DEF Worker, Progress, Interrupt
<1>6. CASE UNCHANGED vars
  BY <1>6 DEF vars
<1> QED
  BY <1>1, <1>2, <1>3, <1>4, <1>5, <1>6 DEF Next

\* The lifecycle is type correct, however many workers, retries and faults.
THEOREM TypeCorrect == Spec => []TypeOK
BY TypeInitial, TypeStep, PTL DEF Spec

-----------------------------------------------------------------------------
(***************************************************************************)
(* The attempts of a job.  The unique constraint alone keeps two workers   *)
(* off one attempt number; that there is no gap needs that the counter a   *)
(* worker loaded is never ahead of the row's, and that a manifest is never *)
(* served for an attempt that is still open needs that each live execution *)
(* owns its run row.                                                       *)
(***************************************************************************)

LoadedBehind == \A w \in Workers : seen[w].attempts <= attempts

OutputsStored == \A w \in Workers : put[w] \subseteq stored

AttemptInv ==
    /\ TypeOK
    /\ RunsContiguous
    /\ LoadedBehind
    /\ AttemptsOwned
    /\ OutputsStored
    /\ ResultBacked
    /\ SucceededHasResult

\* All that AttemptInv reads besides the types.
attemptVars == <<status, attempts, result, runs, stored, pc, seen, mine, put>>

LEMMA AttemptInitial == Init => AttemptInv
<1> SUFFICES ASSUME Init PROVE AttemptInv
  OBVIOUS
<1>1. TypeOK
  BY TypeInitial
<1>2. RunsContiguous
  BY DEF Init, RunsContiguous
<1>3. LoadedBehind /\ AttemptsOwned /\ OutputsStored
  BY DEF Init, LoadedBehind, AttemptsOwned, OutputsStored, NothingSeen
<1>4. ResultBacked /\ SucceededHasResult
  BY DEF Init, ResultBacked, SucceededHasResult
<1> QED
  BY <1>1, <1>2, <1>3, <1>4 DEF AttemptInv

\* A step that leaves those variables alone keeps the invariant.
LEMMA AttemptUntouched ==
    ASSUME AttemptInv, TypeOK', UNCHANGED attemptVars
    PROVE  AttemptInv'
BY DEF AttemptInv, attemptVars, RunsContiguous, LoadedBehind, AttemptsOwned,
       OutputsStored, ResultBacked, SucceededHasResult

\* The loop over smaller batches changes nothing else.
LEMMA LoopsOnly ==
    ASSUME NEW w \in Workers, Loops(w)
    PROVE  /\ pc[w] = "running" /\ trial[w].at \in {"set", "loop"}
           /\ UNCHANGED <<status, attempts, result, celery_task_id, batch_size, stale, runs,
                 stored, queue, sent, revoked, pc, held, seen, mine, put, failure, api,
                 canceller, sweeper, used>>
BY DEF Loops, EnterLoop, ShrinkBatch, LeaveLoop, MoveTrial, jobRow, broker

\* So does one that writes any status but succeeded.
LEMMA AttemptStatusOnly ==
    ASSUME AttemptInv, TypeOK', status' \in {status} \cup (JobStatus \ {"succeeded"}),
           UNCHANGED <<attempts, result, runs, stored, pc, seen, mine, put>>
    PROVE  AttemptInv'
BY DEF AttemptInv, RunsContiguous, LoadedBehind, AttemptsOwned,
       OutputsStored, ResultBacked, SucceededHasResult, JobStatus, Terminal

\* And so does a worker that ends or drops its execution: it gives up its
\* attempt, and leaves the run row as it is.
LEMMA AttemptForgotten ==
    ASSUME AttemptInv, TypeOK', NEW w \in Workers, NEW next \in {"idle", "finishing"},
           Forget(w, next), status' \in {status} \cup (JobStatus \ {"succeeded"}),
           UNCHANGED <<attempts, result, runs, stored>>
    PROVE  AttemptInv'
<1> USE DEF AttemptInv
<1>1. RunsContiguous' /\ ResultBacked'
  BY DEF RunsContiguous, ResultBacked
<1>2. SucceededHasResult'
  BY DEF SucceededHasResult, JobStatus, Terminal
<1>3. LoadedBehind' /\ OutputsStored'
  BY DEF Forget, LoadedBehind, OutputsStored, TypeOK, NothingSeen
<1>4. AttemptsOwned'
  BY DEF Forget, AttemptsOwned, TypeOK
<1> QED
  BY <1>1, <1>2, <1>3, <1>4

LEMMA AttemptStart ==
    ASSUME AttemptInv, TypeOK', NEW w \in Workers, Start(w)
    PROVE  AttemptInv'
<1> DEFINE attempt == seen[w].attempts + 1
<1> USE DEF AttemptInv
<1>1. attempt = attempts + 1 /\ attempts \in Nat /\ attempts' = attempts + 1
  BY SMTT(30) DEF Start, Unused, RunsContiguous, LoadedBehind, TypeOK
<1>2. RunsContiguous'
  BY <1>1 DEF Start, RunsContiguous
<1>3. LoadedBehind' /\ OutputsStored'
  BY <1>1 DEF Start, LoadedBehind, OutputsStored, TypeOK, NothingSeen
<1>4. \A a \in DOMAIN runs : a # attempt /\ runs'[a] = runs[a]
  BY <1>1 DEF Start, Unused
<1>5. AttemptsOwned'
  <2> SUFFICES ASSUME NEW u \in Workers, pc'[u] = "running"
               PROVE  /\ mine'[u] \in DOMAIN runs' /\ runs'[mine'[u]] = "running"
                      /\ \A v \in Workers \ {u} : pc'[v] = "running" => mine'[v] # mine'[u]
    BY DEF AttemptsOwned
  <2>1. mine'[w] = attempt /\ runs'[attempt] = "running" /\ attempt \in DOMAIN runs'
    BY DEF Start, TypeOK
  <2>2. \A v \in Workers \ {w} : mine'[v] = mine[v] /\ pc'[v] = pc[v]
    BY DEF Start, TypeOK
  <2>3. \A v \in Workers \ {w} : pc[v] = "running" =>
          mine[v] \in DOMAIN runs /\ runs[mine[v]] = "running"
    BY DEF AttemptsOwned
  <2>4. CASE u = w
    BY <2>1, <2>2, <2>3, <2>4, <1>4
  <2>5. CASE u # w
    <3>1. mine[u] \in DOMAIN runs /\ runs[mine[u]] = "running"
      BY <2>2, <2>3, <2>5
    <3>2. mine'[u] = mine[u] /\ mine[u] \in DOMAIN runs'
      BY <2>2, <2>5, <3>1 DEF Start
    <3>3. \A v \in Workers \ {u, w} : pc'[v] = "running" => mine'[v] # mine'[u]
      BY <2>2, <2>5 DEF AttemptsOwned
    <3> QED
      BY <2>1, <3>1, <3>2, <3>3, <1>4
  <2> QED
    BY <2>4, <2>5
<1>6. ResultBacked'
  BY <1>4 DEF Start, ResultBacked
<1>7. SucceededHasResult'
  BY DEF Start, SucceededHasResult
<1> QED
  BY <1>2, <1>3, <1>5, <1>6, <1>7

\* Closing the run row of one's own attempt disturbs nobody else's, and cannot
\* touch the attempt whose manifest is served: that one is closed already.
LEMMA AttemptClosed ==
    ASSUME AttemptInv, NEW w \in Workers, pc[w] = "running",
           NEW outcome \in RunStatus, runs' = CloseRun(w, outcome),
           NEW next \in {"returning", "raised"}, pc' = [pc EXCEPT ![w] = next],
           UNCHANGED <<attempts, stored, seen, mine, put>>
    PROVE  /\ RunsContiguous' /\ LoadedBehind' /\ OutputsStored' /\ AttemptsOwned'
           /\ mine[w] \in DOMAIN runs' /\ runs'[mine[w]] = outcome /\ mine[w] # 0
           /\ result # 0 => result \in DOMAIN runs' /\ runs'[result] = "succeeded"
<1> USE DEF AttemptInv, CloseRun
<1>1. mine[w] \in DOMAIN runs /\ runs[mine[w]] = "running"
  BY DEF AttemptsOwned
<1>2. /\ DOMAIN runs' = DOMAIN runs
      /\ runs'[mine[w]] = outcome
      /\ \A a \in DOMAIN runs \ {mine[w]} : runs'[a] = runs[a]
  BY <1>1
<1>3. RunsContiguous' /\ LoadedBehind' /\ OutputsStored'
  BY <1>2 DEF RunsContiguous, LoadedBehind, OutputsStored
<1>4. \A v \in Workers : pc'[v] = "running" => v # w /\ pc[v] = "running"
  BY DEF TypeOK
<1>5. AttemptsOwned'
  BY <1>2, <1>4 DEF AttemptsOwned
<1>6. mine[w] # 0
  BY <1>1 DEF RunsContiguous
<1>7. result # 0 => result \in DOMAIN runs' /\ runs'[result] = "succeeded"
  BY <1>1, <1>2 DEF ResultBacked
<1> QED
  BY <1>1, <1>2, <1>3, <1>5, <1>6, <1>7

LEMMA AttemptSucceeds ==
    ASSUME AttemptInv, TypeOK', NEW w \in Workers, RecordSuccess(w)
    PROVE  AttemptInv'
<1>1. /\ pc[w] = "running" /\ runs' = CloseRun(w, "succeeded")
      /\ pc' = [pc EXCEPT ![w] = "returning"]
      /\ UNCHANGED <<attempts, stored, seen, mine, put>>
  BY DEF RecordSuccess
<1>2. /\ RunsContiguous' /\ LoadedBehind' /\ OutputsStored' /\ AttemptsOwned'
      /\ mine[w] \in DOMAIN runs' /\ runs'[mine[w]] = "succeeded" /\ mine[w] # 0
  BY <1>1, AttemptClosed DEF RunStatus
<1>3. result' = mine[w] /\ stored' = Outputs
  BY DEF RecordSuccess, Manifest, AllOutputs, AttemptInv, OutputsStored, TypeOK
<1> QED
  BY <1>2, <1>3 DEF AttemptInv, ResultBacked, SucceededHasResult

LEMMA AttemptFails ==
    ASSUME AttemptInv, TypeOK', NEW w \in Workers, RecordFailure(w)
    PROVE  AttemptInv'
<1>1. /\ pc[w] = "running" /\ runs' = CloseRun(w, "failed")
      /\ pc' = [pc EXCEPT ![w] = "raised"]
      /\ UNCHANGED <<attempts, result, stored, seen, mine, put>>
      /\ status' \in {status, "failed"}
  BY DEF RecordFailure
<1>2. /\ RunsContiguous' /\ LoadedBehind' /\ OutputsStored' /\ AttemptsOwned'
      /\ result # 0 => result \in DOMAIN runs' /\ runs'[result] = "succeeded"
  BY <1>1, AttemptClosed DEF RunStatus
<1> QED
  BY <1>1, <1>2 DEF AttemptInv, ResultBacked, SucceededHasResult

LEMMA AttemptPuts ==
    ASSUME AttemptInv, TypeOK', NEW w \in Workers, NEW o \in Outputs, PutOutput(w, o)
    PROVE  AttemptInv'
<1> USE DEF AttemptInv, PutOutput, ResultKey
<1>1. RunsContiguous' /\ LoadedBehind' /\ SucceededHasResult' /\ AttemptsOwned'
  BY DEF jobRow, RunsContiguous, LoadedBehind, SucceededHasResult, AttemptsOwned
<1>2. OutputsStored'
  BY DEF OutputsStored, TypeOK
<1>3. ResultBacked'
  BY DEF jobRow, ResultBacked
<1> QED
  BY <1>1, <1>2, <1>3

\* Moving on without touching the tables: only the program counter changes, and
\* not to running.
LEMMA AttemptMoves ==
    ASSUME AttemptInv, TypeOK', NEW w \in Workers, NEW next \in {"received", "raised"},
           pc' = [pc EXCEPT ![w] = next],
           UNCHANGED <<status, attempts, result, runs, stored, seen, mine, put>>
    PROVE  AttemptInv'
<1> USE DEF AttemptInv
<1>1. AttemptsOwned'
  BY DEF AttemptsOwned, TypeOK
<1> QED
  BY <1>1 DEF RunsContiguous, LoadedBehind, OutputsStored, ResultBacked, SucceededHasResult

LEMMA AttemptLoads ==
    ASSUME AttemptInv, TypeOK', NEW w \in Workers, Load(w)
    PROVE  AttemptInv'
<1> USE DEF AttemptInv, Load, jobRow
<1>1. AttemptsOwned'
  BY DEF AttemptsOwned, TypeOK
<1>2. LoadedBehind'
  BY DEF LoadedBehind, TypeOK
<1> QED
  BY <1>1, <1>2 DEF RunsContiguous, OutputsStored, ResultBacked, SucceededHasResult

LEMMA AttemptStep == AttemptInv /\ [Next]_vars => AttemptInv'
<1> SUFFICES ASSUME AttemptInv, [Next]_vars PROVE AttemptInv'
  OBVIOUS
<1>0. TypeOK'
  BY TypeStep DEF AttemptInv
<1> USE DEF jobRow, broker, execs
<1>1. CASE Api
  <2>1. CASE InsertJob \/ MarkQueued \/ ReturnToPending
    BY <1>0, <2>1, AttemptStatusOnly
       DEF InsertJob, MarkQueued, ReturnToPending, JobStatus, Terminal
  <2>2. CASE Publish \/ PublishFails \/ StoreTaskId \/ ApiDies
    <3>1. UNCHANGED attemptVars
      BY <2>2 DEF Publish, PublishFails, StoreTaskId, ApiDies, attemptVars
    <3> QED
      BY <1>0, <3>1, AttemptUntouched
  <2> QED
    BY <1>1, <2>1, <2>2 DEF Api
<1>2. CASE Broker
  <2>1. UNCHANGED attemptVars
    BY <1>2 DEF Broker, LoseMessage, DiscardRevoked, RestoreCopy, attemptVars
  <2> QED
    BY <1>0, <2>1, AttemptUntouched
<1>3. CASE Owner
  <2>1. CASE CancelCommit
    BY <1>0, <2>1, AttemptStatusOnly DEF CancelCommit, JobStatus, Terminal
  <2>2. CASE CancelLoad \/ Revoke
    <3>1. UNCHANGED attemptVars
      BY <2>2 DEF CancelLoad, Revoke, attemptVars
    <3> QED
      BY <1>0, <3>1, AttemptUntouched
  <2> QED
    BY <1>3, <2>1, <2>2 DEF Owner
<1>4. CASE Sweeper
  <2>1. CASE SweepCommit
    BY <1>0, <2>1, AttemptStatusOnly DEF SweepCommit, JobStatus, Terminal
  <2>2. CASE SweepScan \/ SweepPublish \/ SweepFails \/ CutoffPasses
    <3>1. UNCHANGED attemptVars
      BY <2>2 DEF SweepScan, SweepPublish, SweepFails, CutoffPasses, attemptVars
    <3> QED
      BY <1>0, <3>1, AttemptUntouched
  <2> QED
    BY <1>4, <2>1, <2>2 DEF Sweeper
<1>5. ASSUME NEW w \in Workers, Worker(w) PROVE AttemptInv'
  <2>1. CASE Receive(w)
    BY <1>0, <2>1, AttemptMoves DEF Receive
  <2>2. CASE Load(w)
    BY <1>0, <2>2, AttemptLoads
  <2>3. CASE Start(w)
    BY <1>0, <2>3, AttemptStart
  <2>4. ASSUME NEW o \in Outputs, PutOutput(w, o) PROVE AttemptInv'
    BY <1>0, <2>4, AttemptPuts
  <2>5. CASE RecordSuccess(w)
    BY <1>0, <2>5, AttemptSucceeds
  <2>6. CASE RecordFailure(w)
    BY <1>0, <2>6, AttemptFails
  <2>7. CASE CommitFails(w) \/ TimeLimitOnReturn(w)
    BY <1>0, <2>7, AttemptMoves DEF CommitFails, TimeLimitOnReturn
  <2>8. CASE MarkFailed(w)
    BY <1>0, <2>8, AttemptForgotten DEF MarkFailed, Finish, JobStatus, Terminal
  <2>9. CASE \/ Skip(w) \/ StartConflicts(w) \/ Return(w) \/ RaisePermanent(w)
             \/ Retry(w) \/ RetryLost(w)
    <3>1. Finish(w) /\ UNCHANGED <<status, attempts, result, runs, stored>>
      BY <2>9 DEF Skip, StartConflicts, Return, RaisePermanent, Retry, RetryLost
    <3> QED
      BY <1>0, <3>1, AttemptForgotten DEF Finish
  <2>10. CASE Ack(w) \/ WorkerLost(w) \/ HardLimit(w)
    <3>1. Drop(w) /\ UNCHANGED <<status, attempts, result, runs, stored>>
      BY <2>10 DEF Ack, WorkerLost, HardLimit
    <3> QED
      BY <1>0, <3>1, AttemptForgotten DEF Drop
  <2>11. CASE Loops(w)
    BY <1>0, <2>11, LoopsOnly, AttemptUntouched DEF attemptVars
  <2> QED
    BY <1>5, <2>1, <2>2, <2>3, <2>4, <2>5, <2>6, <2>7, <2>8, <2>9, <2>10, <2>11
       DEF Worker, Progress, Interrupt
<1>6. CASE UNCHANGED vars
  <2>1. UNCHANGED attemptVars
    BY <1>6 DEF vars, attemptVars
  <2> QED
    BY <1>0, <2>1, AttemptUntouched
<1> QED
  BY <1>1, <1>2, <1>3, <1>4, <1>5, <1>6 DEF Next

LEMMA AttemptInvariant == Spec => []AttemptInv
BY AttemptInitial, AttemptStep, PTL DEF Spec

\* The attempts of a job are numbered 1..attempts, whatever duplicates, sweeps
\* and crashes the start commits race with.
\* No two live executions share an attempt, and nobody closes another's run row.
THEOREM AttemptsAreKept == Spec => []AttemptsKept
<1>1. AttemptInv => AttemptsKept  BY DEF AttemptInv, AttemptsKept
<1> QED  BY <1>1, AttemptInvariant, PTL

\* A served manifest belongs to an attempt that succeeded, with every output in
\* storage; and a succeeded job always has one.
THEOREM ServedResultsExist == Spec => []ResultsServed
<1>1. AttemptInv => ResultsServed  BY DEF AttemptInv, ResultsServed
<1> QED  BY <1>1, AttemptInvariant, PTL

-----------------------------------------------------------------------------
(* The lifecycle implements the ledger of attempts. *)

LEMMA LedgerInitial == Init => Ledger!Init
BY DEF Init, Ledger!Init

LEMMA LedgerStep ==
    AttemptInv /\ [Next]_vars => [Ledger!Next]_(Ledger!ledgerVars)
<1> SUFFICES ASSUME AttemptInv, [Next]_vars
             PROVE  Ledger!Next \/ UNCHANGED <<attempts, runs, result>>
  BY DEF Ledger!ledgerVars
<1> USE DEF jobRow, broker, execs
<1>1. ASSUME NEW w \in Workers, Start(w) PROVE Ledger!Open
  <2>1. seen[w].attempts + 1 = attempts + 1
    BY <1>1, SMTT(30) DEF Start, Unused, AttemptInv, RunsContiguous, LoadedBehind, TypeOK
  <2> QED
    BY <1>1, <2>1 DEF Start, Ledger!Open
<1>2. ASSUME NEW w \in Workers, pc[w] = "running"
      PROVE  mine[w] \in 1 .. attempts /\ runs[mine[w]] = "running"
  BY <1>2 DEF AttemptInv, AttemptsOwned, RunsContiguous
<1>3. ASSUME NEW w \in Workers, RecordSuccess(w) PROVE Ledger!Next
  <2>1. Ledger!Succeed(mine[w])
    BY <1>2, <1>3 DEF RecordSuccess, CloseRun, Manifest, Ledger!Succeed
  <2> QED
    BY <1>2, <1>3, <2>1 DEF RecordSuccess, Ledger!Next
<1>4. ASSUME NEW w \in Workers, RecordFailure(w) PROVE Ledger!Next
  <2>1. Ledger!Fail(mine[w])
    BY <1>2, <1>4 DEF RecordFailure, CloseRun, Ledger!Fail
  <2> QED
    BY <1>2, <1>4, <2>1 DEF RecordFailure, Ledger!Next
<1>5. CASE Api \/ Broker \/ Owner \/ Sweeper
  BY <1>5 DEF Api, InsertJob, MarkQueued, Publish, PublishFails, StoreTaskId,
       ReturnToPending, ApiDies, Broker, LoseMessage, DiscardRevoked, RestoreCopy,
       Owner, CancelLoad, CancelCommit, Revoke,
       Sweeper, SweepScan, SweepPublish, SweepCommit, SweepFails, CutoffPasses
<1>6. ASSUME NEW w \in Workers,
             \/ Receive(w) \/ Skip(w) \/ Load(w) \/ StartConflicts(w)
             \/ \E o \in Outputs : PutOutput(w, o)
             \/ Loops(w)
             \/ Return(w) \/ MarkFailed(w) \/ RaisePermanent(w) \/ Retry(w) \/ Ack(w)
             \/ Interrupt(w)
      PROVE  UNCHANGED <<attempts, runs, result>>
  BY <1>6 DEF Receive, Skip, Load, StartConflicts, PutOutput, Loops, EnterLoop, ShrinkBatch,
      LeaveLoop, MoveTrial, Return, MarkFailed,
       RaisePermanent, Retry, Ack, Interrupt, CommitFails, TimeLimitOnReturn,
       RetryLost, WorkerLost, HardLimit
<1>7. CASE UNCHANGED vars
  BY <1>7 DEF vars
<1> QED
  BY <1>1, <1>3, <1>4, <1>5, <1>6, <1>7 DEF Next, Worker, Progress, Ledger!Next

\* Whatever happens to the job, its run history only grows by the next number,
\* closes each attempt once, and serves the manifest of one that succeeded.
THEOREM LifecycleKeepsLedger == Spec => LedgerKept
BY LedgerInitial, LedgerStep, AttemptInvariant, PTL DEF Spec, LedgerKept, Ledger!Spec

-----------------------------------------------------------------------------
(* Cancellation between attempts *)

LEMMA SettledStep == TypeOK /\ CancelSettled /\ [Next]_vars => CancelSettled'
<1> SUFFICES ASSUME TypeOK, CancelSettled, [Next]_vars PROVE CancelSettled'
  OBVIOUS
<1> USE DEF CancelSettled, jobRow, broker, execs, Live, TypeOK
<1>1. CASE Api
  BY <1>1 DEF Api, InsertJob, MarkQueued, Publish, PublishFails, StoreTaskId,
       ReturnToPending, ApiDies
<1>2. CASE Broker
  BY <1>2 DEF Broker, LoseMessage, DiscardRevoked, RestoreCopy
<1>3. CASE Owner
  BY <1>3 DEF Owner, CancelLoad, CancelCommit, Revoke
<1>4. CASE Sweeper
  BY <1>4 DEF Sweeper, SweepScan, SweepPublish, SweepCommit, SweepFails,
       CutoffPasses, StuckStatuses
<1>5. ASSUME NEW w \in Workers, Worker(w) PROVE CancelSettled'
  <2>1. /\ pc[w] \notin {"loaded", "running", "returning", "raised"}
        /\ pc \in [Workers -> Executing \cup {"idle", "finishing"}]
    OBVIOUS
  <2>2. \/ Receive(w) \/ Skip(w) \/ Ack(w) \/ WorkerLost(w) \/ HardLimit(w)
    BY <1>5, <2>1 DEF Worker, Progress, Interrupt, Load, Done, Start, StartConflicts,
         PutOutput, Loops, EnterLoop, ShrinkBatch, LeaveLoop, MoveTrial, RecordSuccess,
         RecordFailure, Return, MarkFailed, RaisePermanent,
         Retry, MayRetry, CommitFails, TimeLimitOnReturn, RetryLost
  <2>3. /\ UNCHANGED <<status, api, sweeper>>
        /\ \E next \in {"received", "idle", "finishing"} : pc' = [pc EXCEPT ![w] = next]
    BY <2>2 DEF Receive, Skip, Ack, WorkerLost, HardLimit, Finish, Drop, Forget
  <2> QED
    BY <2>1, <2>3
<1>6. CASE UNCHANGED vars
  BY <1>6 DEF vars
<1> QED
  BY <1>1, <1>2, <1>3, <1>4, <1>5, <1>6 DEF Next

\* Once a cancel has landed with no attempt in flight, no later message, retry,
\* redelivery, sweep or crash brings the job back.
THEOREM CancelIsHonoured == Spec => CancelHonoured
<1>1. TypeOK /\ [Next]_vars => [CancelSettled => CancelSettled']_vars
  BY SettledStep
<1> QED
  BY <1>1, TypeCorrect, PTL DEF Spec, CancelHonoured

-----------------------------------------------------------------------------
(***************************************************************************)
(* Dispatch.  Until the message is published nobody executes the job, and  *)
(* until the request is over nobody sweeps it; so while the request may    *)
(* still send the row back to pending, a started job is not queued.        *)
(***************************************************************************)

Unpublished == api \in {"start", "inserted", "queued"}

DispatchInv ==
    /\ TypeOK
    /\ Unpublished => queue = {} /\ attempts = 0 /\ \A w \in Workers : pc[w] = "idle"
    /\ api # "done" => ~stale /\ sweeper.pc = "idle"
    /\ status = "pending" => attempts = 0
    /\ api # "done" /\ attempts > 0 => status # "queued"
    /\ status = "running" => attempts > 0
    /\ \A w \in Workers : seen[w].status = "running" => attempts > 0

LEMMA DispatchInitial == Init => DispatchInv
<1> SUFFICES ASSUME Init PROVE DispatchInv
  OBVIOUS
<1>1. TypeOK
  BY TypeInitial
<1> QED
  BY <1>1 DEF Init, DispatchInv, Unpublished, NothingSeen

LEMMA DispatchStep == AttemptInv /\ DispatchInv /\ [Next]_vars => DispatchInv'
<1> SUFFICES ASSUME AttemptInv, DispatchInv, [Next]_vars PROVE DispatchInv'
  OBVIOUS
<1>0. TypeOK'
  BY TypeStep DEF DispatchInv
<1>1. CASE Api
  <2> USE DEF DispatchInv, Unpublished, jobRow, broker, execs
  <2>1. CASE InsertJob
    BY <1>0, <2>1 DEF InsertJob
  <2>2. CASE MarkQueued
    BY <1>0, <2>2 DEF MarkQueued
  <2>3. CASE Publish \/ PublishFails
    BY <1>0, <2>3 DEF Publish, PublishFails
  <2>4. CASE StoreTaskId
    BY <1>0, <2>4 DEF StoreTaskId
  <2>5. CASE ReturnToPending
    BY <1>0, <2>5 DEF ReturnToPending, StillQueued, TypeOK
  <2>6. CASE ApiDies
    BY <1>0, <2>6 DEF ApiDies
  <2> QED
    BY <1>1, <2>1, <2>2, <2>3, <2>4, <2>5, <2>6 DEF Api
<1>2. CASE Broker
  BY <1>0, <1>2 DEF Broker, LoseMessage, DiscardRevoked, RestoreCopy,
       DispatchInv, Unpublished, jobRow, execs
<1>3. CASE Owner
  BY <1>0, <1>3 DEF Owner, CancelLoad, CancelCommit, Revoke,
       DispatchInv, Unpublished, jobRow, broker, execs
<1>4. CASE Sweeper
  <2> USE DEF DispatchInv, Unpublished, jobRow, broker, execs
  <2>1. CASE SweepScan \/ SweepFails
    BY <1>0, <2>1 DEF SweepScan, SweepFails
  <2>2. CASE SweepPublish
    BY <1>0, <2>2 DEF SweepPublish
  <2>3. CASE SweepCommit
    BY <1>0, <2>3 DEF SweepCommit
  <2>4. CASE CutoffPasses
    BY <1>0, <2>4 DEF CutoffPasses
  <2> QED
    BY <1>4, <2>1, <2>2, <2>3, <2>4 DEF Sweeper
<1>5. ASSUME NEW w \in Workers, Worker(w) PROVE DispatchInv'
  <2> USE DEF DispatchInv, Unpublished, jobRow, broker
  <2>1. pc[w] # "idle" \/ queue # {}
    <3>1. CASE Receive(w)
      BY <3>1 DEF Receive
    <3>2. CASE Progress(w)
      BY <3>2 DEF Progress, Skip, Load, Start, StartConflicts, PutOutput, Loops, EnterLoop,
          ShrinkBatch, LeaveLoop, MoveTrial, RecordSuccess,
           RecordFailure, Return, MarkFailed, RaisePermanent, Retry, MayRetry, Ack
    <3>3. CASE Interrupt(w)
      BY <3>3 DEF Interrupt, CommitFails, TimeLimitOnReturn, RetryLost, MayRetry,
           WorkerLost, HardLimit, Executing, Live
    <3> QED
      BY <1>5, <3>1, <3>2, <3>3 DEF Worker
  <2>2. ~Unpublished
    BY <2>1
  <2>3. CASE Start(w)
    <3>1. attempts' = attempts + 1 /\ attempts \in Nat
      BY <2>3, SMTT(30) DEF Start, Unused, AttemptInv, RunsContiguous, LoadedBehind, TypeOK
    <3>2. status' # "pending" /\ (api # "done" => status' # "queued")
      BY <2>3 DEF Start
    <3> QED
      BY <1>0, <2>2, <2>3, <3>1, <3>2 DEF Start
  <2>4. CASE Load(w)
    BY <1>0, <2>2, <2>4 DEF Load
  <2>5. CASE Receive(w)
    BY <1>0, <2>2, <2>5 DEF Receive
  <2>6. ASSUME NEW o \in Outputs, PutOutput(w, o) PROVE DispatchInv'
    BY <1>0, <2>2, <2>6 DEF PutOutput
  <2>7. CASE RecordSuccess(w) \/ RecordFailure(w) \/ CommitFails(w) \/ TimeLimitOnReturn(w)
    BY <1>0, <2>2, <2>7 DEF RecordSuccess, RecordFailure, CommitFails, TimeLimitOnReturn
  <2>a. ASSUME NEW next, Forget(w, next)
        PROVE  \A v \in Workers : seen'[v] = seen[v] \/ seen'[v].status = "absent"
    BY <2>a DEF Forget, NothingSeen, TypeOK
  <2>8. CASE \/ Skip(w) \/ StartConflicts(w) \/ Return(w) \/ RaisePermanent(w)
             \/ MarkFailed(w) \/ Retry(w) \/ RetryLost(w)
    <3>1. /\ status' \in {status, "failed"} /\ UNCHANGED <<attempts, stale, api, sweeper>>
          /\ \A v \in Workers : seen'[v] = seen[v] \/ seen'[v].status = "absent"
      BY <2>8, <2>a DEF Skip, StartConflicts, Return, RaisePermanent, MarkFailed, Retry,
           RetryLost, Finish
    <3> QED
      BY <1>0, <2>2, <3>1
  <2>9. CASE Ack(w) \/ WorkerLost(w) \/ HardLimit(w)
    <3>1. /\ UNCHANGED <<status, attempts, stale, api, sweeper>>
          /\ \A v \in Workers : seen'[v] = seen[v] \/ seen'[v].status = "absent"
      BY <2>9, <2>a DEF Ack, WorkerLost, HardLimit, Drop
    <3> QED
      BY <1>0, <2>2, <3>1
  <2>10. CASE Loops(w)
    BY <1>0, <2>2, <2>10, LoopsOnly
  <2> QED
    BY <1>5, <2>3, <2>4, <2>5, <2>6, <2>7, <2>8, <2>9, <2>10 DEF Worker, Progress, Interrupt
<1>6. CASE UNCHANGED vars
  BY <1>0, <1>6 DEF vars, DispatchInv, Unpublished, jobRow, broker, execs
<1> QED
  BY <1>1, <1>2, <1>3, <1>4, <1>5, <1>6 DEF Next

\* The dispatch-failure UPDATE never returns a started job to pending, even when
\* apply_async raised after the broker had taken the message.
THEOREM PendingIsUnstarted == Spec => []PendingNeverStarted
<1>1. DispatchInv => PendingNeverStarted
  BY DEF DispatchInv, PendingNeverStarted
<1> QED
  BY <1>1, DispatchInitial, DispatchStep, AttemptInvariant, PTL DEF Spec

-----------------------------------------------------------------------------
(***************************************************************************)
(* Batch sizes.  A message that is delivered once is in one place at a     *)
(* time, with the broker or with one worker, and carries a batch no larger *)
(* than the row's; so nothing older than the last reduction is delivered.  *)
(***************************************************************************)

Undisturbed == used.faults = 0 /\ used.copies = 0 /\ sent <= 1
Holding(w) == pc[w] \in Executing

SoleMessage ==
    /\ batch_size >= 1
    /\ \A m \in queue : /\ m.batch <= batch_size
                        /\ \A n \in queue : n = m
                        /\ \A w \in Workers : ~Holding(w)
    /\ \A v, w \in Workers : Holding(v) /\ Holding(w) => v = w
    /\ \A w \in Workers : Holding(w) => held[w].batch <= batch_size

\* Only a worker with a message has a loop, and it has no more than the row.
TrialsHeld == \A w \in Workers : trial[w].batch # 0 => Holding(w)
TrialsFit  == \A w \in Workers : trial[w].batch <= batch_size

BatchInv ==
    /\ sent >= 1
    /\ TrialsHeld
    /\ Undisturbed => SoleMessage /\ TrialsFit

LEMMA BatchInitial == Init => BatchInv
  BY ConstantsAssumption DEF Init, BatchInv, SoleMessage, TrialsHeld, TrialsFit, NoTrial, Holding,
     Executing, Live, ApiTask, ConstantsAssumption

LEMMA SentGrows == [Next]_vars => sent' = sent \/ sent' = sent + 1
  BY DEF Next, Api, Broker, Owner, Sweeper, Worker, Progress, Interrupt,
         InsertJob, MarkQueued, Publish, PublishFails, StoreTaskId, ReturnToPending, ApiDies,
         LoseMessage, DiscardRevoked, RestoreCopy, CancelLoad, CancelCommit, Revoke,
         SweepScan, SweepPublish, SweepCommit, SweepFails, CutoffPasses, Receive, Skip, Load,
         Start, StartConflicts, PutOutput, Loops, EnterLoop, ShrinkBatch, LeaveLoop, MoveTrial,
         RecordSuccess, RecordFailure, Return, MarkFailed,
         RaisePermanent, Retry, Ack, CommitFails, TimeLimitOnReturn, RetryLost, WorkerLost,
         HardLimit, broker, vars

\* Only a fault, a restored copy, a cancel request and a sweep use up a bound.
LEMMA BoundSteps ==
    [Next]_vars => \/ UNCHANGED used
                   \/ Fault
                   \/ \E w \in Workers : RestoreCopy(w)
                   \/ CancelLoad
                   \/ SweepScan
  BY DEF Next, Api, Broker, Owner, Sweeper, Worker, Progress, Interrupt,
         InsertJob, MarkQueued, Publish, PublishFails, StoreTaskId, ReturnToPending, ApiDies,
         LoseMessage, DiscardRevoked, CancelCommit, Revoke,
         SweepPublish, SweepCommit, SweepFails, CutoffPasses, Receive, Skip, Load,
         Start, StartConflicts, PutOutput, Loops, EnterLoop, ShrinkBatch, LeaveLoop, MoveTrial,
         RecordSuccess, RecordFailure, Return, MarkFailed,
         RaisePermanent, Retry, Ack, CommitFails, TimeLimitOnReturn, RetryLost, WorkerLost,
         HardLimit, vars

\* What happened cannot be undone.
LEMMA BoundsGrow ==
    TypeOK /\ [Next]_vars => /\ used.faults <= used'.faults
                            /\ used.copies <= used'.copies
                            /\ used.cancels <= used'.cancels
                            /\ used.sweeps <= used'.sweeps
                            /\ sent <= sent'
<1> SUFFICES ASSUME TypeOK, [Next]_vars
             PROVE  /\ used.faults <= used'.faults
                    /\ used.copies <= used'.copies
                    /\ used.cancels <= used'.cancels
                    /\ used.sweeps <= used'.sweeps
                    /\ sent <= sent'
  OBVIOUS
<1> USE DEF TypeOK
<1>1. sent <= sent'  BY SentGrows
<1>2. CASE UNCHANGED used  BY <1>1, <1>2
<1>3. CASE Fault  BY <1>1, <1>3 DEF Fault
<1>4. CASE \E w \in Workers : RestoreCopy(w)  BY <1>1, <1>4 DEF RestoreCopy
<1>5. CASE CancelLoad  BY <1>1, <1>5 DEF CancelLoad
<1>6. CASE SweepScan  BY <1>1, <1>6 DEF SweepScan
<1> QED  BY <1>2, <1>3, <1>4, <1>5, <1>6, BoundSteps

LEMMA StillUndisturbed ==
    ASSUME TypeOK, [Next]_vars, Undisturbed'
    PROVE  Undisturbed
  BY BoundsGrow, TypeStep DEF Undisturbed, TypeOK

\* Steps that neither publish nor deliver.
LEMMA SoleKept ==
    ASSUME SoleMessage, batch_size' = batch_size, queue' \subseteq queue,
           \A v \in Workers : Holding(v)' => Holding(v) /\ held'[v] = held[v]
    PROVE  SoleMessage'
  BY DEF SoleMessage

LEMMA HalveShrinks ==
    ASSUME NEW n \in Nat, NEW bound \in Nat, n <= bound, bound >= 1
    PROVE  Halve(n) \in Nat /\ Halve(n) <= bound
  BY DEF Halve

LEMMA WorkerKeepsSole ==
    ASSUME TypeOK, SoleMessage, NEW w \in Workers, Worker(w), Undisturbed, Undisturbed'
    PROVE  SoleMessage'
  <1>1. pc \in [Workers -> Executing \cup {"idle", "finishing"}] /\ held \in [Workers -> Message]
    BY DEF TypeOK
  <1>2. ~Fault  BY DEF Undisturbed, Fault, TypeOK
  <1>3. CASE Receive(w)
    <2>1. PICK m \in queue : /\ queue' = queue \ {m} /\ held' = [held EXCEPT ![w] = m]
                             /\ batch_size' = Override(m)
                             /\ pc' = [pc EXCEPT ![w] = "received"]
      BY <1>3 DEF Receive
    <2>2. queue' = {} /\ \A v \in Workers : ~Holding(v)  BY <2>1 DEF SoleMessage
    <2>3. \A v \in Workers : Holding(v)' => v = w
      BY <1>1, <2>1, <2>2 DEF Holding
    <2>4. m.batch \in Nat /\ m.batch <= batch_size /\ batch_size \in Nat /\ batch_size >= 1
      BY DEF TypeOK, Message, SoleMessage
    <2>5. m.batch <= batch_size' /\ batch_size' >= 1  BY <2>1, <2>4 DEF Override
    <2>6. held'[w] = m  BY <1>1, <2>1
    <2> QED  BY <2>2, <2>3, <2>5, <2>6 DEF SoleMessage
  <1>4. CASE Retry(w)
    <2>1. /\ pc[w] = "raised" /\ queue' = queue \cup {RetryMessage(w)} /\ batch_size' = batch_size
          /\ pc' = [pc EXCEPT ![w] = "finishing"] /\ held' = held
      BY <1>4 DEF Retry, MayRetry, RetryPublished, Finish, Forget, jobRow
    <2>2. Holding(w)  BY <2>1 DEF Holding, Executing, Live
    <2>3. queue' = {RetryMessage(w)}  BY <2>1, <2>2 DEF SoleMessage
    <2>4. \A v \in Workers : ~Holding(v)'
      BY <1>1, <2>1, <2>2 DEF SoleMessage, Holding, Executing, Live
    <2>5. RetryMessage(w).batch <= batch_size
      <3>1. batch_size \in Nat /\ batch_size >= 1  BY DEF TypeOK, SoleMessage
      <3>2. held[w].batch \in Nat /\ held[w].batch <= batch_size
        BY <1>1, <2>2 DEF SoleMessage, Message
      <3>3. Halve(held[w].batch) <= batch_size /\ Halve(batch_size) <= batch_size
        BY <3>1, <3>2, HalveShrinks
      <3> QED  BY <3>1, <3>3 DEF RetryMessage
    <2> QED  BY <2>1, <2>3, <2>4, <2>5 DEF SoleMessage
  <1>5. CASE ~Receive(w) /\ ~Retry(w)
    <2>1. batch_size' = batch_size /\ queue' = queue
      BY <1>2, <1>5 DEF Worker, Progress, Interrupt, Skip, Load, Start, StartConflicts, PutOutput,
          Loops, EnterLoop, ShrinkBatch, LeaveLoop, MoveTrial,
           RecordSuccess, RecordFailure, Return, MarkFailed, RaisePermanent, Ack, CommitFails,
           TimeLimitOnReturn, RetryLost, WorkerLost, HardLimit, jobRow, broker
    <2>2. \/ pc' = pc /\ held' = held
          \/ \E next \in Executing : Holding(w) /\ pc' = [pc EXCEPT ![w] = next] /\ held' = held
          \/ pc' = [pc EXCEPT ![w] = "finishing"] /\ held' = held
          \/ pc' = [pc EXCEPT ![w] = "idle"] /\ held' = [held EXCEPT ![w] = NoMessage]
      <3>1. CASE Load(w) \/ Start(w) \/ RecordSuccess(w) \/ RecordFailure(w) \/ TimeLimitOnReturn(w)
        BY <3>1 DEF Load, Start, RecordSuccess, RecordFailure, TimeLimitOnReturn, Holding,
                    Executing, Live
      <3>2. CASE Loops(w) \/ \E o \in Outputs : PutOutput(w, o)
        BY <3>2, LoopsOnly DEF PutOutput
      <3>3. CASE Skip(w) \/ StartConflicts(w) \/ Return(w) \/ MarkFailed(w) \/ RaisePermanent(w)
        BY <3>3 DEF Skip, StartConflicts, Return, MarkFailed, RaisePermanent, Finish, Forget
      <3>4. CASE Ack(w)
        BY <3>4 DEF Ack, Drop, Forget
      <3> QED  BY <1>2, <1>5, <3>1, <3>2, <3>3, <3>4
            DEF Worker, Progress, Interrupt, CommitFails, RetryLost, WorkerLost, HardLimit
    <2>3. \A v \in Workers : Holding(v)' => Holding(v) /\ held'[v] = held[v]
      BY <1>1, <2>2 DEF Holding, Executing, Live
    <2> QED  BY <2>1, <2>3, SoleKept
  <1> QED  BY <1>3, <1>4, <1>5

LEMMA OthersKeepSole ==
    ASSUME DispatchInv, SoleMessage, Api \/ Broker \/ Owner \/ Sweeper,
           sent >= 1, Undisturbed, Undisturbed'
    PROVE  SoleMessage'
  <1>1. ~Fault  BY DEF Undisturbed, Fault, DispatchInv, TypeOK
  <1>2. CASE Publish
    <2>1. queue = {} /\ \A w \in Workers : ~Holding(w)
      BY <1>2 DEF Publish, DispatchInv, Unpublished, Holding, Executing, Live
    <2>2. /\ queue' = {NewMessage(ApiTask)} /\ batch_size' = batch_size
          /\ \A w \in Workers : ~Holding(w)'
      BY <1>2, <2>1 DEF Publish, Holding, jobRow, execs
    <2>3. NewMessage(ApiTask).batch <= batch_size  BY DEF NewMessage, SoleMessage, DispatchInv, TypeOK
    <2> QED  BY <2>2, <2>3 DEF SoleMessage
  <1>3. CASE ~Publish
    <2>1. ~SweepPublish
      BY DEF SweepPublish, Undisturbed, DispatchInv, TypeOK
    <2>2. ~ \E w \in Workers : RestoreCopy(w)
      BY DEF RestoreCopy, Undisturbed, DispatchInv, TypeOK
    <2>3. batch_size' = batch_size /\ queue' \subseteq queue /\ UNCHANGED <<pc, held>>
      BY <1>1, <1>3, <2>1, <2>2
      DEF Api, Broker, Owner, Sweeper, InsertJob, MarkQueued, PublishFails, StoreTaskId,
          ReturnToPending, ApiDies, LoseMessage, DiscardRevoked, CancelLoad, CancelCommit, Revoke,
          SweepScan, SweepCommit, SweepFails, CutoffPasses, jobRow, broker, execs
    <2> QED  BY <2>3, SoleKept DEF Holding
  <1> QED  BY <1>2, <1>3

LEMMA HalveBounded == ASSUME NEW n \in Nat, n > 1 PROVE Halve(n) \in Nat /\ Halve(n) <= n
  BY DEF Halve

\* A loop begins with the row's size, shrinks, and ends with the execution.
LEMMA WorkerTrial ==
    ASSUME TypeOK, NEW w \in Workers, Worker(w)
    PROVE  \/ trial'[w].batch = 0
           \/ Holding(w)' /\ trial'[w].batch = batch_size /\ batch_size' = batch_size
           \/ trial'[w].batch <= trial[w].batch /\ (Holding(w) => Holding(w)')
  <1>1. /\ pc \in [Workers -> Executing \cup {"idle", "finishing"}]
        /\ trial \in [Workers -> [at : {"none", "set", "loop", "over"}, batch : Nat]]
        /\ trial[w].batch \in Nat
    BY DEF TypeOK
  <1>2. CASE Load(w)
    <2>1. pc'[w] = "loaded" /\ trial'[w].batch = batch_size /\ batch_size' = batch_size
      BY <1>1, <1>2 DEF Load, jobRow
    <2> QED  BY <2>1 DEF Holding, Executing
  <1>3. CASE EnterLoop(w) \/ LeaveLoop(w)
    <2>1. pc' = pc /\ trial'[w].batch <= trial[w].batch
      BY <1>1, <1>3 DEF EnterLoop, LeaveLoop, MoveTrial
    <2> QED  BY <2>1 DEF Holding
  <1>4. CASE ShrinkBatch(w)
    <2>1. pc' = pc /\ trial'[w].batch = Halve(trial[w].batch) /\ trial[w].batch > 1
      BY <1>1, <1>4 DEF ShrinkBatch, MoveTrial
    <2> QED  BY <1>1, <2>1, HalveBounded DEF Holding
  <1>5. CASE Receive(w) \/ Start(w) \/ TimeLimitOnReturn(w) \/ \E o \in Outputs : PutOutput(w, o)
    <2>1. trial' = trial /\ (pc' = pc \/ pc'[w] \in {"received", "running", "raised"})
      BY <1>1, <1>5 DEF Receive, Start, TimeLimitOnReturn, PutOutput
    <2> QED  BY <1>1, <2>1 DEF Holding, Executing, Live
  <1>6. CASE RecordSuccess(w) \/ RecordFailure(w) \/ CommitFails(w)
    <2>1. trial'[w] = NoTrial
      BY <1>1, <1>6 DEF RecordSuccess, RecordFailure, CommitFails
    <2> QED  BY <2>1 DEF NoTrial
  <1>7. CASE \/ Skip(w) \/ StartConflicts(w) \/ Return(w) \/ MarkFailed(w) \/ RaisePermanent(w)
             \/ Retry(w) \/ RetryLost(w) \/ Ack(w) \/ WorkerLost(w) \/ HardLimit(w)
    <2>1. \E next \in {"finishing", "idle"} : Forget(w, next)
      BY <1>7 DEF Skip, StartConflicts, Return, MarkFailed, RaisePermanent, Retry, RetryLost, Ack,
         WorkerLost, HardLimit, Finish, Drop
    <2>2. trial'[w] = NoTrial  BY <1>1, <2>1 DEF Forget
    <2> QED  BY <2>2 DEF NoTrial
  <1> QED  BY <1>2, <1>3, <1>4, <1>5, <1>6, <1>7 DEF Worker, Progress, Interrupt, Loops

LEMMA TrialSteps ==
    ASSUME TypeOK, [Next]_vars, NEW v \in Workers
    PROVE  \/ trial'[v].batch = 0
           \/ Holding(v)' /\ trial'[v].batch = batch_size /\ batch_size' = batch_size
           \/ trial'[v].batch <= trial[v].batch /\ (Holding(v) => Holding(v)')
  <1>0. trial[v].batch \in Nat  BY DEF TypeOK
  <1>1. CASE UNCHANGED <<pc, trial>>  BY <1>0, <1>1 DEF Holding
  <1>2. CASE Api \/ Broker \/ Owner \/ Sweeper \/ UNCHANGED vars
    <2>1. UNCHANGED <<pc, trial>>
      BY <1>2 DEF Api, Broker, Owner, Sweeper, vars, execs,
         InsertJob, MarkQueued, Publish, PublishFails, StoreTaskId, ReturnToPending, ApiDies,
         LoseMessage, DiscardRevoked, RestoreCopy, CancelLoad, CancelCommit, Revoke,
         SweepScan, SweepPublish, SweepCommit, SweepFails, CutoffPasses
    <2> QED  BY <1>1, <2>1
  <1>3. ASSUME NEW w \in Workers, Worker(w), w # v
        PROVE  pc'[v] = pc[v] /\ trial'[v] = trial[v]
    <2>1. pc \in [Workers -> Executing \cup {"idle", "finishing"}]
          /\ trial \in [Workers -> [at : {"none", "set", "loop", "over"}, batch : Nat]]
      BY DEF TypeOK
    <2>2. \/ pc' = pc
          \/ \E next : pc' = [pc EXCEPT ![w] = next]
      BY <1>3 DEF Worker, Progress, Interrupt, Receive, Skip, Load, Start, StartConflicts,
         PutOutput, Loops, EnterLoop, ShrinkBatch, LeaveLoop, MoveTrial, RecordSuccess,
         RecordFailure, Return, MarkFailed, RaisePermanent, Retry, Ack, CommitFails,
         TimeLimitOnReturn, RetryLost, WorkerLost, HardLimit, Finish, Drop, Forget
    <2>3. \/ trial' = trial
          \/ \E next : trial' = [trial EXCEPT ![w] = next]
      BY <1>3 DEF Worker, Progress, Interrupt, Receive, Skip, Load, Start, StartConflicts,
         PutOutput, Loops, EnterLoop, ShrinkBatch, LeaveLoop, MoveTrial, RecordSuccess,
         RecordFailure, Return, MarkFailed, RaisePermanent, Retry, Ack, CommitFails,
         TimeLimitOnReturn, RetryLost, WorkerLost, HardLimit, Finish, Drop, Forget
    <2> QED  BY <1>3, <2>1, <2>2, <2>3
  <1> QED  BY <1>0, <1>2, <1>3, WorkerTrial DEF Next, Holding

\* The only step that changes the row's batch is a delivery, and then no loop runs.
LEMMA BatchFalls ==
    ASSUME DispatchInv, BatchInv, [Next]_vars, Undisturbed
    PROVE  batch_size' <= batch_size /\ TrialsFit'
  <1>0. TypeOK /\ TypeOK'  BY TypeStep DEF DispatchInv
  <1>1. SoleMessage /\ TrialsFit /\ TrialsHeld /\ batch_size \in Nat /\ batch_size' \in Nat
        /\ \A v \in Workers : trial[v].batch \in Nat /\ trial'[v].batch \in Nat
    BY <1>0 DEF BatchInv, TypeOK
  <1>2. CASE \E w \in Workers : Receive(w)
    <2>1. /\ batch_size' <= batch_size
          /\ \A v \in Workers : ~Holding(v)
          /\ trial' = trial
      BY <1>1, <1>2 DEF Receive, Override, SoleMessage
    <2>2. \A v \in Workers : trial'[v].batch = 0  BY <2>1 DEF BatchInv, TrialsHeld
    <2> QED  BY <1>1, <2>1, <2>2 DEF TrialsFit
  <1>3. CASE ~ \E w \in Workers : Receive(w)
    <2>1. batch_size' = batch_size
      BY <1>3 DEF Next, Api, Broker, Owner, Sweeper, Worker, Progress, Interrupt,
         InsertJob, MarkQueued, Publish, PublishFails, StoreTaskId, ReturnToPending, ApiDies,
         LoseMessage, DiscardRevoked, RestoreCopy, CancelLoad, CancelCommit, Revoke,
         SweepScan, SweepPublish, SweepCommit, SweepFails, CutoffPasses, Skip, Load,
         Start, StartConflicts, PutOutput, Loops, EnterLoop, ShrinkBatch, LeaveLoop, MoveTrial,
         RecordSuccess, RecordFailure, Return, MarkFailed, RaisePermanent, Retry, Ack,
         CommitFails, TimeLimitOnReturn, RetryLost, WorkerLost, HardLimit, jobRow, vars
    <2>2. \A v \in Workers : trial'[v].batch <= batch_size
      BY <1>0, <1>1, <2>1, TrialSteps DEF TrialsFit
    <2> QED  BY <1>1, <2>1, <2>2 DEF TrialsFit
  <1> QED  BY <1>2, <1>3

LEMMA BatchStep == DispatchInv /\ BatchInv /\ [Next]_vars => BatchInv'
<1> SUFFICES ASSUME DispatchInv, BatchInv, [Next]_vars PROVE BatchInv'
  OBVIOUS
<1>1. TypeOK  BY DEF DispatchInv
<1>2. sent' >= 1  BY <1>1, SentGrows DEF TypeOK, BatchInv
<1>3. ASSUME Undisturbed' PROVE SoleMessage' /\ TrialsFit'
  <2>1. Undisturbed /\ SoleMessage /\ sent >= 1  BY <1>1, <1>3, StillUndisturbed DEF BatchInv
  <2>2. CASE UNCHANGED vars
    <3>1. UNCHANGED <<batch_size, queue, pc, held>>  BY <2>2 DEF vars, jobRow, broker, execs
    <3>2. SoleMessage'  BY <2>1, <3>1 DEF SoleMessage, Holding
    <3> QED  BY <2>1, <3>2, BatchFalls
  <2>3. CASE Next
    <3>1. SoleMessage'
      BY <1>1, <1>3, <2>1, <2>3, OthersKeepSole, WorkerKeepsSole DEF Next
    <3> QED  BY <2>1, <3>1, BatchFalls
  <2> QED  BY <2>2, <2>3
<1>4. TrialsHeld'
  <2>1. TypeOK'  BY <1>1, TypeStep
  <2>2. \A v \in Workers : trial[v].batch \in Nat /\ trial'[v].batch \in Nat
    BY <1>1, <2>1 DEF TypeOK
  <2>3. \A v \in Workers : trial[v].batch # 0 => Holding(v)  BY DEF BatchInv, TrialsHeld
  <2>4. ASSUME NEW v \in Workers, trial'[v].batch # 0 PROVE Holding(v)'
    <3>1. CASE Holding(v)'  BY <3>1
    <3>2. CASE trial'[v].batch <= trial[v].batch /\ (Holding(v) => Holding(v)')
      <4>1. trial[v].batch # 0  BY <2>2, <2>4, <3>2
      <4> QED  BY <2>3, <3>2, <4>1
    <3> QED  BY <1>1, <2>4, <3>1, <3>2, TrialSteps
  <2> QED  BY <2>4 DEF TrialsHeld
<1> QED  BY <1>2, <1>3, <1>4 DEF BatchInv

\* While its message is delivered once, the row's batch only falls and no attempt runs
\* with a larger one than the row shows.
THEOREM BatchesShrink == Spec => BatchNeverGrows
<1>1. DispatchInv /\ BatchInv /\ [Next]_vars
        => [used.faults = 0 /\ used.copies = 0 /\ sent <= 1 =>
              /\ batch_size' <= batch_size
              /\ \A w \in Workers : trial'[w].batch <= batch_size']_vars
  BY BatchFalls DEF Undisturbed, TrialsFit
<1>2. Spec => []DispatchInv
  BY DispatchInitial, DispatchStep, AttemptInvariant, PTL DEF Spec
<1>3. Spec => []BatchInv
  BY <1>2, BatchInitial, BatchStep, PTL DEF Spec
<1> QED
  BY <1>1, <1>2, <1>3, PTL DEF Spec, BatchNeverGrows

-----------------------------------------------------------------------------
(***************************************************************************)
(* In somebody's hands.  Without faults, cancels and sweeps every execution *)
(* that gives its message up either leaves a terminal status, publishes a  *)
(* retry, or lost the start commit to one that is still going.             *)
(***************************************************************************)

Unaided == used.faults = 0 /\ used.cancels = 0 /\ used.sweeps = 0

\* w will bring the job to a terminal status, publish a retry, or be overtaken by
\* a worker that starts a later attempt.
Carrying(w) ==
    \/ pc[w] \in {"received", "running"}
    \/ pc[w] = "loaded" /\ seen[w].attempts = attempts
    \/ pc[w] = "raised" /\ failure[w] \in Retryable \cup {"time_limit"}

InHands ==
    \/ status \in Terminal \cup {"absent"}
    \/ Unpublished
    \/ queue # {}
    \/ \E w \in Workers : Carrying(w)

HandsInv ==
    Unaided => /\ revoked = {}
               /\ canceller.pc = "idle"
               /\ sweeper.pc = "idle"
               /\ InHands

LEMMA HandsInitial == Init => HandsInv
  BY DEF Init, HandsInv, InHands, Terminal

LEMMA StillUnaided ==
    ASSUME TypeOK, [Next]_vars, Unaided'
    PROVE  Unaided
  BY BoundsGrow, TypeStep DEF Unaided, TypeOK

\* Steps of a worker that hands nothing on: another one carries the job, or its
\* status is terminal.
LEMMA WorkerKeepsHands ==
    ASSUME AttemptInv, DispatchInv, InHands, NEW w \in Workers, Worker(w), Unaided, Unaided'
    PROVE  InHands'
<1>0. TypeOK  BY DEF DispatchInv
<1>1. ~Fault  BY <1>0 DEF Unaided, Fault, TypeOK
<1>2. pc \in [Workers -> Executing \cup {"idle", "finishing"}]
  BY <1>0 DEF TypeOK
<1>3. ~Unpublished
  <2>1. CASE pc[w] # "idle"
    BY <2>1 DEF DispatchInv
  <2>2. CASE pc[w] = "idle"
    <3>1. Receive(w)
      BY <1>1, <2>2 DEF Worker, Progress, Interrupt, Skip, Load, Start, StartConflicts,
           PutOutput, Loops, EnterLoop, ShrinkBatch, LeaveLoop, MoveTrial, RecordSuccess,
           RecordFailure, Return, MarkFailed, RaisePermanent, Retry,
           MayRetry, Ack, CommitFails, TimeLimitOnReturn, RetryLost, WorkerLost, HardLimit
    <3> QED  BY <3>1 DEF Receive, DispatchInv
  <2> QED  BY <2>1, <2>2
<1>4. CASE Receive(w)
  BY <1>2, <1>4 DEF Receive, InHands, Carrying
<1>5. CASE Load(w)
  <2>1. pc'[w] = "loaded" /\ seen'[w].attempts = attempts /\ attempts' = attempts
    BY <1>0, <1>2, <1>5 DEF Load, TypeOK, jobRow
  <2> QED  BY <2>1 DEF InHands, Carrying
<1>6. CASE Start(w)
  BY <1>2, <1>6 DEF Start, InHands, Carrying
<1>7. CASE Loops(w) \/ \E o \in Outputs : PutOutput(w, o)
  BY <1>3, <1>7, LoopsOnly DEF PutOutput, InHands, Carrying, jobRow, broker
<1>8. CASE RecordSuccess(w)
  BY <1>8 DEF RecordSuccess, InHands, Terminal
<1>9. CASE RecordFailure(w)
  <2>1. PICK kind \in Failures : /\ failure' = [failure EXCEPT ![w] = kind]
                                 /\ status' = IF kind \in Retryable THEN status ELSE "failed"
    BY <1>9 DEF RecordFailure
  <2>2. pc'[w] = "raised" /\ failure'[w] = kind
    BY <1>0, <1>2, <1>9, <2>1 DEF RecordFailure, TypeOK
  <2> QED  BY <2>1, <2>2 DEF InHands, Carrying, Terminal
<1>10. CASE Retry(w)
  BY <1>10 DEF Retry, RetryPublished, InHands
<1>11. CASE MarkFailed(w)
  BY <1>11 DEF MarkFailed, InHands, Terminal
<1>12. CASE TimeLimitOnReturn(w)
  BY <1>0, <1>2, <1>12 DEF TimeLimitOnReturn, InHands, Carrying, TypeOK
\* The steps that end an execution: it was not the one that carries the job.
<1>13. CASE Skip(w)
  BY <1>13 DEF Skip, Done, InHands, Terminal, jobRow
<1>14. CASE StartConflicts(w) \/ Return(w) \/ RaisePermanent(w) \/ Ack(w)
  <2>1. ~Carrying(w)
    <3>1. CASE StartConflicts(w)
      <4>1. seen[w].attempts \in Nat /\ attempts \in Nat  BY <1>0 DEF TypeOK
      <4>2. seen[w].attempts # attempts
        BY <3>1, <4>1 DEF StartConflicts, Unused, AttemptInv, RunsContiguous
      <4> QED  BY <3>1, <4>2 DEF StartConflicts, Carrying
    <3>2. CASE Return(w) \/ RaisePermanent(w) \/ Ack(w)
      BY <3>2 DEF Return, RaisePermanent, Ack, Carrying, Retryable
    <3> QED  BY <1>14, <3>1, <3>2
  <2>2. /\ UNCHANGED <<status, attempts, queue, api>>
        /\ \A v \in Workers \ {w} : pc'[v] = pc[v] /\ seen'[v] = seen[v] /\ failure'[v] = failure[v]
    BY <1>0, <1>14 DEF StartConflicts, Return, RaisePermanent, Ack, Finish, Drop, Forget,
         jobRow, broker, TypeOK
  <2>3. \A v \in Workers : Carrying(v) => Carrying(v)'
    BY <2>1, <2>2 DEF Carrying
  <2> QED  BY <2>2, <2>3 DEF InHands, Unpublished
<1> QED
  BY <1>1, <1>4, <1>5, <1>6, <1>7, <1>8, <1>9, <1>10, <1>11, <1>12, <1>13, <1>14
  DEF Worker, Progress, Interrupt, CommitFails, RetryLost, WorkerLost, HardLimit

LEMMA HandsStep == AttemptInv /\ DispatchInv /\ HandsInv /\ [Next]_vars => HandsInv'
<1> SUFFICES ASSUME AttemptInv, DispatchInv, HandsInv, [Next]_vars, Unaided'
             PROVE  /\ revoked' = {}
                    /\ canceller'.pc = "idle"
                    /\ sweeper'.pc = "idle"
                    /\ InHands'
  BY DEF HandsInv
<1>0. TypeOK  BY DEF DispatchInv
<1>1. Unaided /\ revoked = {} /\ canceller.pc = "idle" /\ sweeper.pc = "idle" /\ InHands
  BY <1>0, StillUnaided DEF HandsInv
<1>2. ~Fault /\ ~CancelLoad /\ ~SweepScan
  <2>1. used.sweeps = 0 /\ used'.sweeps = 0 /\ MaxSweeps \in Nat
    BY <1>1, ConstantsAssumption DEF Unaided, ConstantsAssumption
  <2>2. ~SweepScan  BY <1>0, <2>1 DEF SweepScan, TypeOK
  <2> QED  BY <1>0, <1>1, <2>2 DEF Unaided, Fault, CancelLoad, TypeOK
<1>3. CASE Api
  <2>1. UNCHANGED <<revoked, canceller, sweeper>>
    BY <1>3 DEF Api, InsertJob, MarkQueued, Publish, PublishFails, StoreTaskId,
         ReturnToPending, ApiDies, broker
  <2>2. CASE InsertJob \/ MarkQueued
    BY <1>1, <2>1, <2>2 DEF InsertJob, MarkQueued, InHands, Unpublished
  <2>3. CASE Publish
    BY <1>1, <2>1, <2>3 DEF Publish, InHands
  <2>4. CASE StoreTaskId \/ ReturnToPending
    BY <1>1, <2>4 DEF StoreTaskId, ReturnToPending, StillQueued, InHands, Unpublished, Carrying,
         broker, execs, Terminal
  <2> QED
    BY <1>1, <1>2, <1>3, <2>1, <2>2, <2>3, <2>4 DEF Api, PublishFails, ApiDies
<1>4. CASE Broker
  <2>1. ~LoseMessage /\ ~DiscardRevoked  BY <1>1, <1>2 DEF LoseMessage, DiscardRevoked
  <2>2. PICK w \in Workers : RestoreCopy(w)  BY <1>4, <2>1 DEF Broker
  <2> QED  BY <1>1, <2>2 DEF RestoreCopy, InHands
<1>5. CASE Owner
  BY <1>1, <1>2, <1>5 DEF Owner, CancelCommit, Revoke
<1>6. CASE Sweeper
  <2>1. CutoffPasses
    BY <1>1, <1>2, <1>6 DEF Sweeper, SweepPublish, SweepCommit, SweepFails
  <2> QED  BY <1>1, <2>1 DEF CutoffPasses, InHands, Unpublished, Carrying, broker, execs
<1>7. ASSUME NEW w \in Workers, Worker(w)
      PROVE  UNCHANGED <<revoked, canceller, sweeper>> /\ InHands'
  <2>1. UNCHANGED <<revoked, canceller, sweeper>>
    BY <1>7 DEF Worker, Progress, Interrupt, Receive, Skip, Load, Start, StartConflicts,
         PutOutput, Loops, EnterLoop, ShrinkBatch, LeaveLoop, MoveTrial, RecordSuccess,
         RecordFailure, Return, MarkFailed, RaisePermanent, Retry, Ack,
         CommitFails, TimeLimitOnReturn, RetryLost, WorkerLost, HardLimit, broker
  <2> QED  BY <1>1, <1>7, <2>1, WorkerKeepsHands
<1>8. CASE UNCHANGED vars
  BY <1>1, <1>8 DEF vars, InHands, Unpublished, Carrying, jobRow, broker, execs
<1> QED
  BY <1>1, <1>3, <1>4, <1>5, <1>6, <1>7, <1>8 DEF Next

\* As long as nothing fails and nobody interferes, a job that is not terminal is
\* being dispatched, has a message, or is being worked on: no early return, lost
\* start commit or failure report of _run_job leaves it behind.
THEOREM JobsAreNotStranded == Spec => []NeverStranded
<1>1. HandsInv => NeverStranded
  BY DEF HandsInv, InHands, Unaided, NeverStranded, Unpublished, Carrying, Terminal,
         Executing, Live
<1>2. Spec => []DispatchInv
  BY DispatchInitial, DispatchStep, AttemptInvariant, PTL DEF Spec
<1> QED
  BY <1>1, <1>2, AttemptInvariant, HandsInitial, HandsStep, PTL DEF Spec

-----------------------------------------------------------------------------
(***************************************************************************)
(* A success that stays.  With one message that is in one place at a time  *)
(* nobody is between reading the row and writing it once it says succeeded. *)
(***************************************************************************)

OneDelivery ==
    /\ sent <= 1 /\ used.copies = 0 /\ used.cancels = 0 /\ "time_limit" \notin Failures
    /\ MaxRetries = 0 \/ used.faults = 0

\* Where the message may come back from: without retries that is a worker that has
\* not acknowledged it; with retries and no fault, one that has not yet finished.
Out(w) == Holding(w) \/ (pc[w] = "finishing" /\ MaxRetries = 0)

Exclusive ==
    /\ \A m \in queue : /\ \A n \in queue : n = m
                        /\ \A w \in Workers : ~Out(w)
    /\ \A v, w \in Workers : Out(v) /\ Out(w) => v = w

NobodyWrites == \A w \in Workers : pc[w] \notin {"loaded", "running", "raised"}

FinalInv ==
    OneDelivery => /\ canceller.pc = "idle"
                   /\ sweeper.pc # "sent"
                   /\ Exclusive
                   /\ status = "succeeded" => NobodyWrites

LEMMA FinalInitial == Init => FinalInv
  BY ConstantsAssumption DEF Init, FinalInv, Exclusive, Out, Holding, Executing, Live, NobodyWrites

LEMMA StillOneDelivery ==
    ASSUME TypeOK, [Next]_vars, OneDelivery'
    PROVE  OneDelivery
  BY BoundsGrow, TypeStep DEF OneDelivery, TypeOK

\* Steps that neither publish nor deliver.
LEMMA ExclusiveKept ==
    ASSUME Exclusive, queue' \subseteq queue, \A v \in Workers : Out(v)' => Out(v)
    PROVE  Exclusive'
  BY DEF Exclusive

LEMMA WorkerKeepsExclusive ==
    ASSUME TypeOK, OneDelivery', Exclusive, NEW w \in Workers, Worker(w)
    PROVE  Exclusive'
  <1>1. pc \in [Workers -> Executing \cup {"idle", "finishing"}] /\ MaxRetries \in Nat
    BY ConstantsAssumption DEF TypeOK, ConstantsAssumption
  <1> USE DEF Executing, Live, Holding, Out
  <1>2. CASE Receive(w)
    <2>1. PICK m \in queue : /\ queue' = queue \ {m}
                             /\ pc' = [pc EXCEPT ![w] = "received"]
      BY <1>2 DEF Receive
    <2>2. queue' = {} /\ \A v \in Workers : ~Out(v)  BY <2>1 DEF Exclusive
    <2>3. \A v \in Workers : Out(v)' => v = w  BY <1>1, <2>1, <2>2
    <2> QED  BY <2>2, <2>3 DEF Exclusive
  <1>3. CASE Retry(w)
    <2>1. /\ pc[w] = "raised" /\ queue' = queue \cup {RetryMessage(w)}
          /\ pc' = [pc EXCEPT ![w] = "finishing"] /\ held[w].retries + 1 <= MaxRetries
      BY <1>3 DEF Retry, MayRetry, RetriesLeft, RetryPublished, Finish, Forget
    <2>2. held[w].retries \in Nat  BY DEF TypeOK, Message
    <2>3. MaxRetries # 0  BY <1>1, <2>1, <2>2
    <2>4. queue' = {RetryMessage(w)}  BY <2>1 DEF Exclusive
    <2>5. \A v \in Workers : ~Out(v)'  BY <1>1, <2>1, <2>3 DEF Exclusive
    <2> QED  BY <2>4, <2>5 DEF Exclusive
  <1>4. CASE WorkerLost(w)
    <2>1. /\ pc[w] # "idle" /\ queue' = queue \cup {held[w]}
          /\ pc' = [pc EXCEPT ![w] = "idle"] /\ used'.faults # 0
      BY <1>4 DEF WorkerLost, Drop, Forget, Fault, TypeOK
    <2>2. MaxRetries = 0  BY <2>1 DEF OneDelivery
    <2>3. Out(w)  BY <1>1, <2>1, <2>2
    <2>4. queue' = {held[w]} /\ \A v \in Workers : ~Out(v)'
      BY <1>1, <2>1, <2>3 DEF Exclusive
    <2> QED  BY <2>4 DEF Exclusive
  <1>5. CASE ~Receive(w) /\ ~Retry(w) /\ ~WorkerLost(w)
    <2>1. /\ queue' = queue
          /\ \/ pc' = pc
             \/ \E next \in Executing \cup {"finishing"} :
                  pc[w] \in Executing /\ pc' = [pc EXCEPT ![w] = next]
             \/ pc' = [pc EXCEPT ![w] = "idle"]
      <3>1. CASE \/ Load(w) \/ Start(w) \/ (\E o \in Outputs : PutOutput(w, o)) \/ Loops(w)
                 \/ RecordSuccess(w) \/ RecordFailure(w) \/ CommitFails(w) \/ TimeLimitOnReturn(w)
        BY <3>1, LoopsOnly DEF Load, Start, PutOutput, RecordSuccess, RecordFailure, CommitFails,
             TimeLimitOnReturn, broker
      <3>2. CASE \/ Skip(w) \/ StartConflicts(w) \/ Return(w) \/ MarkFailed(w) \/ RaisePermanent(w)
                 \/ RetryLost(w)
        BY <3>2 DEF Skip, StartConflicts, Return, MarkFailed, RaisePermanent, RetryLost, MayRetry,
             Finish, Forget, broker
      <3>3. CASE Ack(w) \/ HardLimit(w)
        BY <3>3 DEF Ack, HardLimit, Drop, Forget, broker
      <3> QED  BY <1>5, <3>1, <3>2, <3>3 DEF Worker, Progress, Interrupt
    <2>2. \A v \in Workers : Out(v)' => Out(v)  BY <1>1, <2>1
    <2> QED  BY <2>1, <2>2, ExclusiveKept
  <1> QED  BY <1>2, <1>3, <1>4, <1>5

LEMMA OthersKeepExclusive ==
    ASSUME DispatchInv, Exclusive, Api \/ Broker \/ Owner \/ Sweeper, sent >= 1, OneDelivery'
    PROVE  Exclusive'
  <1>1. CASE Publish \/ PublishFails
    <2>1. queue = {} /\ \A w \in Workers : ~Out(w)
      BY <1>1 DEF Publish, PublishFails, DispatchInv, Unpublished, Out, Holding, Executing, Live
    <2>2. queue' \subseteq {NewMessage(ApiTask)} /\ \A w \in Workers : ~Out(w)'
      BY <1>1, <2>1 DEF Publish, PublishFails, Out, Holding, execs
    <2> QED  BY <2>2 DEF Exclusive
  <1>2. CASE ~Publish /\ ~PublishFails
    <2>1. ~SweepPublish
      BY DEF SweepPublish, OneDelivery, DispatchInv, TypeOK
    <2>2. ~ \E w \in Workers : RestoreCopy(w)
      BY DEF RestoreCopy, OneDelivery, DispatchInv, TypeOK
    <2>3. queue' \subseteq queue /\ pc' = pc
      BY <1>2, <2>1, <2>2
      DEF Api, Broker, Owner, Sweeper, InsertJob, MarkQueued, StoreTaskId,
          ReturnToPending, ApiDies, LoseMessage, DiscardRevoked, CancelLoad, CancelCommit, Revoke,
          SweepScan, SweepCommit, SweepFails, CutoffPasses, broker, execs
    <2> QED  BY <2>3, ExclusiveKept DEF Out, Holding
  <1> QED  BY <1>1, <1>2

\* Whoever reads the row while it says succeeded finds the manifest and stops.
LEMMA NobodyWritesStep ==
    ASSUME AttemptInv, DispatchInv, OneDelivery, Exclusive, canceller.pc = "idle",
           sweeper.pc # "sent", status = "succeeded" => NobodyWrites, [Next]_vars
    PROVE  status' = "succeeded" => NobodyWrites'
<1> SUFFICES ASSUME status' = "succeeded" PROVE NobodyWrites'
  OBVIOUS
<1>0. TypeOK /\ pc \in [Workers -> Executing \cup {"idle", "finishing"}]
  BY DEF DispatchInv, TypeOK
<1>1. CASE Api \/ Broker \/ Owner \/ Sweeper \/ UNCHANGED vars
  <2>1. pc' = pc
    BY <1>1 DEF Api, Broker, Owner, Sweeper, InsertJob, MarkQueued, Publish, PublishFails,
         StoreTaskId, ReturnToPending, ApiDies, LoseMessage, DiscardRevoked, RestoreCopy,
         CancelLoad, CancelCommit, Revoke, SweepScan, SweepPublish, SweepCommit, SweepFails,
         CutoffPasses, execs, vars
  <2>2. status = "succeeded"
    BY <1>1 DEF Api, Broker, Owner, Sweeper, InsertJob, MarkQueued, Publish, PublishFails,
         StoreTaskId, ReturnToPending, ApiDies, LoseMessage, DiscardRevoked, RestoreCopy,
         CancelLoad, CancelCommit, Revoke, SweepScan, SweepPublish, SweepCommit, SweepFails,
         CutoffPasses, jobRow, vars
  <2> QED  BY <2>1, <2>2 DEF NobodyWrites
<1>2. ASSUME NEW w \in Workers, Worker(w) PROVE NobodyWrites'
  <2>1. CASE RecordSuccess(w)
    <3>1. pc[w] = "running" /\ pc' = [pc EXCEPT ![w] = "returning"]  BY <2>1 DEF RecordSuccess
    <3>2. \A v \in Workers : v # w => ~Holding(v)
      BY <3>1 DEF Exclusive, Out, Holding, Executing, Live
    <3> QED  BY <1>0, <3>1, <3>2 DEF NobodyWrites, Holding, Executing, Live
  <2>2. CASE ~RecordSuccess(w)
    <3>1. status = "succeeded" /\ ~Start(w) /\ ~RecordFailure(w) /\ ~MarkFailed(w)
      BY <1>2, <2>2 DEF Worker, Progress, Interrupt, Receive, Skip, Load, Start, StartConflicts,
           PutOutput, Loops, EnterLoop, ShrinkBatch, LeaveLoop, MoveTrial, RecordFailure, Return,
           MarkFailed, RaisePermanent, Retry, Ack, CommitFails,
           TimeLimitOnReturn, RetryLost, WorkerLost, HardLimit, jobRow, NobodyWrites
    <3>2. NobodyWrites /\ result # 0
      BY <3>1 DEF AttemptInv, SucceededHasResult
    <3>3. ~Load(w) /\ ~CommitFails(w)
      BY <3>1, <3>2 DEF Load, Done, CommitFails, NobodyWrites
    <3>4. pc' = pc \/ \E next \in {"received", "idle", "finishing"} : pc' = [pc EXCEPT ![w] = next]
      BY <1>2, <2>2, <3>1, <3>3
      DEF Worker, Progress, Interrupt, Receive, Skip, StartConflicts, PutOutput, Loops, EnterLoop,
      ShrinkBatch, LeaveLoop, MoveTrial, Return,
          RaisePermanent, Retry, Ack, TimeLimitOnReturn, RetryLost, WorkerLost, HardLimit,
          Finish, Drop, Forget, OneDelivery
    <3> QED  BY <1>0, <3>2, <3>4 DEF NobodyWrites
  <2> QED  BY <2>1, <2>2
<1> QED  BY <1>1, <1>2 DEF Next

LEMMA FinalStep ==
    AttemptInv /\ DispatchInv /\ BatchInv /\ FinalInv /\ [Next]_vars => FinalInv'
<1> SUFFICES ASSUME AttemptInv, DispatchInv, BatchInv, FinalInv, [Next]_vars, OneDelivery'
             PROVE  /\ canceller'.pc = "idle"
                    /\ sweeper'.pc # "sent"
                    /\ Exclusive'
                    /\ status' = "succeeded" => NobodyWrites'
  BY DEF FinalInv
<1>0. TypeOK /\ sent >= 1  BY DEF DispatchInv, BatchInv
<1>1. /\ OneDelivery /\ canceller.pc = "idle" /\ sweeper.pc # "sent" /\ Exclusive
      /\ status = "succeeded" => NobodyWrites
  BY <1>0, StillOneDelivery DEF FinalInv
<1>2. canceller'.pc = "idle" /\ sweeper'.pc # "sent"
  <2>1. ~CancelLoad /\ ~SweepPublish
    BY <1>0 DEF CancelLoad, SweepPublish, OneDelivery, TypeOK
  <2>2. CASE Api \/ Broker \/ Owner \/ Sweeper
    BY <1>1, <2>1, <2>2
    DEF Api, Broker, Owner, Sweeper, InsertJob, MarkQueued, Publish, PublishFails,
         StoreTaskId, ReturnToPending, ApiDies, LoseMessage, DiscardRevoked, RestoreCopy,
         CancelCommit, Revoke, SweepScan, SweepCommit, SweepFails, CutoffPasses
  <2>3. CASE \E w \in Workers : Worker(w)
    BY <1>1, <2>3 DEF Worker, Progress, Interrupt, Receive, Skip, Load, Start, StartConflicts,
         PutOutput, Loops, EnterLoop, ShrinkBatch, LeaveLoop, MoveTrial, RecordSuccess,
         RecordFailure, Return, MarkFailed, RaisePermanent, Retry, Ack,
         CommitFails, TimeLimitOnReturn, RetryLost, WorkerLost, HardLimit
  <2>4. CASE UNCHANGED vars  BY <1>1, <2>4 DEF vars
  <2> QED  BY <2>2, <2>3, <2>4 DEF Next
<1>3. Exclusive'
  <2>1. CASE UNCHANGED vars
    BY <1>1, <2>1 DEF vars, broker, execs, Exclusive, Out, Holding
  <2>2. CASE Next
    BY <1>0, <1>1, <2>2, WorkerKeepsExclusive, OthersKeepExclusive DEF Next
  <2> QED  BY <2>1, <2>2
<1> QED
  BY <1>1, <1>2, <1>3, NobodyWritesStep

\* A success is not undone by delivering its message again, at whatever step the first
\* delivery was cut short.
THEOREM SuccessesStay == Spec => SuccessIsFinal
<1>1. AttemptInv /\ DispatchInv /\ FinalInv /\ [Next]_vars
        => [/\ status = "succeeded"
            /\ sent <= 1 /\ used.copies = 0 /\ used.cancels = 0 /\ "time_limit" \notin Failures
            /\ MaxRetries = 0 \/ used.faults = 0
            => status' = "succeeded"]_vars
  <2> SUFFICES ASSUME AttemptInv, DispatchInv, FinalInv, Next, OneDelivery, status = "succeeded"
               PROVE  status' = "succeeded"
    BY DEF OneDelivery, vars, jobRow
  <2>1. NobodyWrites /\ canceller.pc = "idle" /\ sweeper.pc # "sent"  BY DEF FinalInv
  <2>2. attempts # 0
    BY DEF AttemptInv, SucceededHasResult, ResultBacked, RunsContiguous
  <2>3. CASE Api
    <3>1. api \notin {"start", "inserted"}  BY <2>2 DEF DispatchInv, Unpublished
    <3> QED
      BY <2>3, <3>1 DEF Api, InsertJob, MarkQueued, Publish, PublishFails, StoreTaskId,
           ReturnToPending, StillQueued, ApiDies, jobRow
  <2>4. CASE Broker \/ Owner \/ Sweeper
    BY <2>1, <2>4 DEF Broker, Owner, Sweeper, LoseMessage, DiscardRevoked, RestoreCopy,
         CancelLoad, CancelCommit, Revoke, SweepScan, SweepPublish, SweepCommit, SweepFails,
         CutoffPasses, jobRow
  <2>5. CASE \E w \in Workers : Worker(w)
    BY <2>1, <2>5 DEF NobodyWrites, Worker, Progress, Interrupt, Receive, Skip, Load, Start,
         StartConflicts, PutOutput, Loops, EnterLoop, ShrinkBatch, LeaveLoop, MoveTrial,
         RecordSuccess, RecordFailure, Return, MarkFailed,
         RaisePermanent, Retry, Ack, CommitFails, TimeLimitOnReturn, RetryLost, WorkerLost,
         HardLimit, jobRow
  <2> QED  BY <2>3, <2>4, <2>5 DEF Next
<1>2. Spec => []DispatchInv
  BY DispatchInitial, DispatchStep, AttemptInvariant, PTL DEF Spec
<1>3. Spec => []BatchInv
  BY <1>2, BatchInitial, BatchStep, PTL DEF Spec
<1>4. Spec => []FinalInv
  BY <1>2, <1>3, AttemptInvariant, FinalInitial, FinalStep, PTL DEF Spec
<1> QED
  BY <1>1, <1>2, <1>4, AttemptInvariant, PTL DEF Spec, SuccessIsFinal

-----------------------------------------------------------------------------
(***************************************************************************)
(* The work a job can cost.  Every message is worth the attempts it may    *)
(* still start, itself and its retries; only a dispatch, a restored copy   *)
(* and a fault add to what the messages at hand are worth together.        *)
(***************************************************************************)

MaxAttempts == MaxRetries + 1

Budget == sent + used.copies + used.faults

\* The retry numbers from the next attempt that w may start for its message.
NextRetry(w) ==
    IF pc[w] \in {"received", "loaded"} THEN held[w].retries
    ELSE IF pc[w] \in Live THEN held[w].retries + 1
    ELSE MaxAttempts

InQueue == {c \in queue \X (0 .. MaxRetries) : c[1].retries <= c[2]}
AtWork  == {c \in Workers \X (0 .. MaxRetries) : NextRetry(c[1]) <= c[2]}

Reserve == IF Unpublished THEN MaxAttempts ELSE 0

CreditInv ==
    /\ \A m \in queue : m.retries <= MaxRetries
    /\ \A w \in Workers : held[w].retries <= MaxRetries
    /\ IsFiniteSet(InQueue) /\ IsFiniteSet(AtWork)
    /\ attempts + Cardinality(InQueue) + Cardinality(AtWork) + Reserve
          <= MaxAttempts * Budget

\* What a message with n retries behind it is worth.
Worth(x, n) == {x} \X (n .. MaxRetries)

LEMMA RetriesTyped == MaxRetries \in Nat /\ MaxAttempts \in Nat /\ MaxAttempts = MaxRetries + 1
  BY ConstantsAssumption DEF ConstantsAssumption, MaxAttempts

LEMMA WorthOf ==
    ASSUME NEW x, NEW n \in 0 .. MaxAttempts
    PROVE  /\ IsFiniteSet(Worth(x, n))
           /\ Cardinality(Worth(x, n)) = MaxAttempts - n
  <1>1. IsFiniteSet(n .. MaxRetries) /\ Cardinality(n .. MaxRetries) = MaxAttempts - n
    BY RetriesTyped, FS_Interval
  <1>2. IsFiniteSet({x}) /\ Cardinality({x}) = 1  BY FS_Singleton
  <1>3. /\ IsFiniteSet({x} \X (n .. MaxRetries))
        /\ Cardinality({x} \X (n .. MaxRetries)) = 1 * Cardinality(n .. MaxRetries)
    BY <1>1, <1>2, FS_Product
  <1>4. Cardinality(n .. MaxRetries) \in Nat  BY <1>1, FS_CardinalityType
  <1> QED  BY <1>1, <1>3, <1>4 DEF Worth

\* Adding to a finite set something that was not in it.
LEMMA DisjointUnion ==
    ASSUME NEW S, NEW T, IsFiniteSet(S), IsFiniteSet(T), S \cap T = {}
    PROVE  /\ IsFiniteSet(S \cup T)
           /\ Cardinality(S \cup T) = Cardinality(S) + Cardinality(T)
  <1>1. Cardinality(S \cap T) = 0  BY FS_EmptySet
  <1>2. Cardinality(S) \in Nat /\ Cardinality(T) \in Nat  BY FS_CardinalityType
  <1>3. /\ IsFiniteSet(S \cup T)
        /\ Cardinality(S \cup T) = Cardinality(S) + Cardinality(T) - Cardinality(S \cap T)
    BY FS_Union
  <1> QED  BY <1>1, <1>2, <1>3

LEMMA QueueGains ==
    ASSUME IsFiniteSet(InQueue), NEW m, m.retries \in 0 .. MaxAttempts, queue' \subseteq queue \cup {m}
    PROVE  /\ IsFiniteSet(InQueue')
           /\ Cardinality(InQueue') <= Cardinality(InQueue) + MaxAttempts - m.retries
  <1> DEFINE W == Worth(m, m.retries)
  <1>1. IsFiniteSet(W) /\ Cardinality(W) = MaxAttempts - m.retries  BY WorthOf
  <1>2. IsFiniteSet(InQueue \cup W)
        /\ Cardinality(InQueue \cup W) = Cardinality(InQueue) + Cardinality(W) - Cardinality(InQueue \cap W)
    BY <1>1, FS_Union
  <1>3. InQueue' \in SUBSET (InQueue \cup W)
    <2> SUFFICES ASSUME NEW c \in InQueue' PROVE c \in InQueue \cup W
      OBVIOUS
    <2>1. PICK n \in queue \cup {m}, i \in 0 .. MaxRetries : c = <<n, i>>  BY DEF InQueue
    <2>2. n.retries <= i  BY <2>1 DEF InQueue
    <2>3. CASE n \in queue  BY <2>1, <2>2, <2>3 DEF InQueue
    <2>4. CASE n = m
      <3>1. i \in m.retries .. MaxRetries  BY <2>1, <2>2, <2>4, RetriesTyped
      <3> QED  BY <2>1, <2>4, <3>1 DEF Worth
    <2> QED  BY <2>1, <2>3, <2>4
  <1>4. IsFiniteSet(InQueue \cap W)  BY <1>1, FS_Subset
  <1>5. /\ IsFiniteSet(InQueue')
        /\ Cardinality(InQueue') <= Cardinality(InQueue \cup W)
    BY <1>2, <1>3, FS_Subset
  <1>6. /\ Cardinality(InQueue) \in Nat /\ Cardinality(InQueue \cap W) \in Nat
        /\ Cardinality(InQueue') \in Nat
    BY <1>4, <1>5, FS_CardinalityType
  <1>7. m.retries \in Nat  BY RetriesTyped
  <1> QED  BY <1>1, <1>2, <1>5, <1>6, <1>7, RetriesTyped

LEMMA QueueLoses ==
    ASSUME IsFiniteSet(InQueue), NEW m \in queue, m.retries \in 0 .. MaxAttempts, queue' = queue \ {m}
    PROVE  /\ IsFiniteSet(InQueue')
           /\ Cardinality(InQueue') = Cardinality(InQueue) - (MaxAttempts - m.retries)
  <1> DEFINE W == Worth(m, m.retries)
  <1>1. IsFiniteSet(W) /\ Cardinality(W) = MaxAttempts - m.retries  BY WorthOf
  <1>2. InQueue = InQueue' \cup W
    <2>1. ASSUME NEW c \in InQueue PROVE c \in InQueue' \cup W
      <3>1. PICK n \in queue, i \in 0 .. MaxRetries : c = <<n, i>>  BY DEF InQueue
      <3>2. n.retries <= i  BY <3>1 DEF InQueue
      <3>3. CASE n = m
        <4>1. i \in m.retries .. MaxRetries  BY <3>1, <3>2, <3>3, RetriesTyped
        <4> QED  BY <3>1, <3>3, <4>1 DEF Worth
      <3>4. CASE n # m  BY <3>1, <3>2, <3>4 DEF InQueue
      <3> QED  BY <3>3, <3>4
    <2>2. InQueue' \subseteq InQueue  BY DEF InQueue
    <2>3. W \subseteq InQueue  BY RetriesTyped DEF InQueue, Worth
    <2> QED  BY <2>1, <2>2, <2>3
  <1>3. InQueue' \cap W = {}  BY DEF InQueue, Worth
  <1>4. IsFiniteSet(InQueue')  BY <1>2, FS_Subset
  <1>5. Cardinality(InQueue) = Cardinality(InQueue') + Cardinality(W)
    BY <1>1, <1>2, <1>3, <1>4, DisjointUnion
  <1>6. Cardinality(InQueue) \in Nat /\ Cardinality(InQueue') \in Nat
    BY <1>4, FS_CardinalityType
  <1>7. m.retries \in Nat  BY RetriesTyped
  <1> QED  BY <1>1, <1>4, <1>5, <1>6, <1>7, RetriesTyped

\* A step of one worker moves only its own credits.
LEMMA WorkMoves ==
    ASSUME IsFiniteSet(AtWork), NEW w \in Workers,
           NEW a \in 0 .. MaxAttempts, NextRetry(w) = a,
           NEW b \in 0 .. MaxAttempts, NextRetry(w)' = b,
           \A v \in Workers \ {w} : NextRetry(v)' = NextRetry(v)
    PROVE  /\ IsFiniteSet(AtWork')
           /\ Cardinality(AtWork') = Cardinality(AtWork) + a - b
  <1> DEFINE Others == {c \in AtWork : c[1] # w}
  <1>1. IsFiniteSet(Others)  BY FS_Subset
  <1>2. /\ IsFiniteSet(Worth(w, a)) /\ Cardinality(Worth(w, a)) = MaxAttempts - a
        /\ IsFiniteSet(Worth(w, b)) /\ Cardinality(Worth(w, b)) = MaxAttempts - b
    BY WorthOf
  <1>3. a \in Nat /\ b \in Nat /\ MaxRetries \in Nat  BY RetriesTyped
  <1>4. AtWork = Others \cup Worth(w, a)
    <2>1. ASSUME NEW c \in AtWork, c[1] = w PROVE c \in Worth(w, a)
      <3>1. PICK i \in 0 .. MaxRetries : c = <<w, i>>  BY <2>1 DEF AtWork
      <3>2. i \in a .. MaxRetries  BY <1>3, <2>1, <3>1 DEF AtWork
      <3> QED  BY <3>1, <3>2 DEF Worth
    <2>2. Worth(w, a) \subseteq AtWork  BY <1>3 DEF AtWork, Worth
    <2> QED  BY <2>1, <2>2
  <1>5. AtWork' = Others \cup Worth(w, b)
    <2>1. ASSUME NEW c \in AtWork' PROVE c \in Others \cup Worth(w, b)
      <3>1. PICK v \in Workers, i \in 0 .. MaxRetries : c = <<v, i>>  BY DEF AtWork
      <3>2. NextRetry(v)' <= i  BY <3>1 DEF AtWork
      <3>3. CASE v = w
        <4>1. i \in b .. MaxRetries  BY <1>3, <3>1, <3>2, <3>3
        <4> QED  BY <3>1, <3>3, <4>1 DEF Worth
      <3>4. CASE v # w  BY <3>1, <3>2, <3>4 DEF AtWork
      <3> QED  BY <3>3, <3>4
    <2>2. Worth(w, b) \subseteq AtWork'  BY <1>3 DEF AtWork, Worth
    <2>3. ASSUME NEW c \in Others PROVE c \in AtWork'
      <3>1. PICK v \in Workers, i \in 0 .. MaxRetries : c = <<v, i>>  BY DEF AtWork
      <3>2. v # w /\ NextRetry(v) <= i  BY <3>1 DEF AtWork
      <3> QED  BY <3>1, <3>2 DEF AtWork
    <2> QED  BY <2>1, <2>2, <2>3
  <1>6. Others \cap Worth(w, a) = {} /\ Others \cap Worth(w, b) = {}  BY DEF Worth
  <1>7. /\ Cardinality(AtWork) = Cardinality(Others) + Cardinality(Worth(w, a))
        /\ IsFiniteSet(AtWork')
        /\ Cardinality(AtWork') = Cardinality(Others) + Cardinality(Worth(w, b))
    BY <1>1, <1>2, <1>4, <1>5, <1>6, DisjointUnion
  <1>8. Cardinality(Others) \in Nat  BY <1>1, FS_CardinalityType
  <1> QED  BY <1>2, <1>3, <1>7, <1>8, RetriesTyped

\* What the step adds to the counter, the messages and the executions is covered by
\* what it adds to the budget.
LEMMA CreditsBalance ==
    ASSUME TypeOK, TypeOK', CreditInv, IsFiniteSet(InQueue'), IsFiniteSet(AtWork'),
           \A m \in queue' : m.retries <= MaxRetries,
           \A w \in Workers : held'[w].retries <= MaxRetries,
           NEW gain \in {0, 1}, Budget' >= Budget + gain,
           attempts' + Cardinality(InQueue') + Cardinality(AtWork') + Reserve'
             <= attempts + Cardinality(InQueue) + Cardinality(AtWork) + Reserve
                  + (IF gain = 1 THEN MaxAttempts ELSE 0)
    PROVE  CreditInv'
  <1> DEFINE before == attempts + Cardinality(InQueue) + Cardinality(AtWork) + Reserve
             after  == attempts' + Cardinality(InQueue') + Cardinality(AtWork') + Reserve'
  <1>1. Budget \in Nat /\ Budget' \in Nat /\ MaxAttempts \in Nat
    BY RetriesTyped DEF Budget, TypeOK
  <1>2. before \in Nat /\ after \in Nat
    <2>1. /\ Cardinality(InQueue) \in Nat /\ Cardinality(AtWork) \in Nat
          /\ Cardinality(InQueue') \in Nat /\ Cardinality(AtWork') \in Nat
      BY FS_CardinalityType DEF CreditInv
    <2>2. attempts \in Nat /\ attempts' \in Nat /\ Reserve \in Nat /\ Reserve' \in Nat
      BY RetriesTyped DEF TypeOK, Reserve
    <2> QED  BY <2>1, <2>2
  <1>3. before <= MaxAttempts * Budget  BY DEF CreditInv
  <1>4. \A r, b, c \in Nat : b <= c => r * b <= r * c
    OBVIOUS
  <1>5. \A r, b \in Nat : r * (b + 1) = r * b + r
    OBVIOUS
  <1>6. /\ MaxAttempts * Budget \in Nat /\ MaxAttempts * Budget' \in Nat
        /\ (IF gain = 1 THEN MaxAttempts ELSE 0) \in Nat
    <2>1. \A r, b \in Nat : r * b \in Nat  OBVIOUS
    <2> QED  BY <1>1, <2>1
  <1>7. MaxAttempts * Budget + (IF gain = 1 THEN MaxAttempts ELSE 0) <= MaxAttempts * Budget'
    <2>1. CASE gain = 0
      <3>1. Budget <= Budget'  BY <1>1, <2>1
      <3>2. MaxAttempts * Budget <= MaxAttempts * Budget'  BY <1>1, <1>4, <3>1
      <3> QED  BY <1>6, <2>1, <3>2
    <2>2. CASE gain = 1
      <3>1. Budget + 1 \in Nat /\ Budget + 1 <= Budget'  BY <1>1, <2>2
      <3>2. MaxAttempts * (Budget + 1) <= MaxAttempts * Budget'  BY <1>1, <1>4, <3>1
      <3>3. MaxAttempts * (Budget + 1) = MaxAttempts * Budget + MaxAttempts  BY <1>1, <1>5
      <3> QED  BY <2>2, <3>2, <3>3
    <2> QED  BY <2>1, <2>2
  <1>8. after <= before + (IF gain = 1 THEN MaxAttempts ELSE 0)  OBVIOUS
  <1> HIDE DEF before, after
  <1>9. after <= MaxAttempts * Budget'  BY <1>2, <1>3, <1>6, <1>7, <1>8
  <1> QED  BY <1>9 DEF CreditInv, after

LEMMA CreditInitial == Init => CreditInv
<1> SUFFICES ASSUME Init PROVE CreditInv
  OBVIOUS
<1> USE RetriesTyped
<1>1. InQueue = {}  BY DEF Init, InQueue
<1>2. AtWork = {}
  BY DEF Init, AtWork, NextRetry, Live
<1>3. Reserve = MaxAttempts /\ Budget = 1 /\ MaxAttempts * 1 = MaxAttempts
  BY DEF Init, Reserve, Unpublished, Budget, ApiTask
<1>4. /\ \A m \in queue : m.retries <= MaxRetries
      /\ \A w \in Workers : held[w].retries <= MaxRetries
  BY DEF Init, NoMessage
<1>5. IsFiniteSet({}) /\ Cardinality({}) = 0  BY FS_EmptySet
<1>6. attempts = 0  BY DEF Init
<1> QED  BY <1>1, <1>2, <1>3, <1>4, <1>5, <1>6 DEF CreditInv

\* Steps that leave the executions' credits and the counter alone.
LEMMA CreditsOfQueue ==
    ASSUME TypeOK, TypeOK', CreditInv, UNCHANGED <<attempts, pc, held>>,
           \/ queue' \subseteq queue /\ Reserve' <= Reserve /\ Budget' >= Budget
           \/ \E m \in queue' : /\ queue' \subseteq queue \cup {m} /\ m.retries <= MaxRetries
                               /\ \/ Budget' >= Budget + 1 /\ Reserve' <= Reserve
                                  \/ Budget' >= Budget /\ Reserve = MaxAttempts /\ Reserve' = 0
    PROVE  CreditInv'
  <1> USE RetriesTyped
  <1>1. AtWork' = AtWork  BY DEF AtWork, NextRetry
  <1>2. /\ IsFiniteSet(InQueue) /\ IsFiniteSet(AtWork)
        /\ Cardinality(InQueue) \in Nat /\ Cardinality(AtWork) \in Nat
        /\ attempts \in Nat /\ Reserve \in Nat /\ Reserve' \in Nat /\ Budget \in Nat /\ Budget' \in Nat
    <2>1. IsFiniteSet(InQueue) /\ IsFiniteSet(AtWork)  BY DEF CreditInv
    <2>2. Cardinality(InQueue) \in Nat /\ Cardinality(AtWork) \in Nat  BY <2>1, FS_CardinalityType
    <2> QED  BY <2>1, <2>2 DEF TypeOK, Reserve, Budget
  <1>3. \A w \in Workers : held'[w].retries <= MaxRetries  BY DEF CreditInv
  <1>4. CASE queue' \subseteq queue /\ Reserve' <= Reserve /\ Budget' >= Budget
    <2>1. InQueue' \in SUBSET InQueue  BY <1>4 DEF InQueue
    <2>2. IsFiniteSet(InQueue') /\ Cardinality(InQueue') <= Cardinality(InQueue)
      BY <1>2, <2>1, FS_Subset
    <2>3. Cardinality(InQueue') \in Nat  BY <2>2, FS_CardinalityType
    <2>4. \A m \in queue' : m.retries <= MaxRetries  BY <1>4 DEF CreditInv
    <2>5. attempts' + Cardinality(InQueue') + Cardinality(AtWork') + Reserve'
             <= attempts + Cardinality(InQueue) + Cardinality(AtWork) + Reserve + 0
      BY <1>1, <1>2, <1>4, <2>2, <2>3
    <2>6. Budget' >= Budget + 0  BY <1>2, <1>4
    <2> QED  BY <1>1, <1>2, <1>3, <2>2, <2>4, <2>5, <2>6, CreditsBalance
  <1>5. ASSUME NEW m \in queue', queue' \subseteq queue \cup {m}, m.retries <= MaxRetries,
               \/ Budget' >= Budget + 1 /\ Reserve' <= Reserve
               \/ Budget' >= Budget /\ Reserve = MaxAttempts /\ Reserve' = 0
        PROVE  CreditInv'
    <2>1. m.retries \in Nat /\ m.retries \in 0 .. MaxAttempts  BY <1>5 DEF TypeOK, Message
    <2>2. /\ IsFiniteSet(InQueue')
          /\ Cardinality(InQueue') <= Cardinality(InQueue) + MaxAttempts - m.retries
      BY <1>2, <1>5, <2>1, QueueGains
    <2>3. Cardinality(InQueue') \in Nat  BY <2>2, FS_CardinalityType
    <2>4. \A n \in queue' : n.retries <= MaxRetries  BY <1>5 DEF CreditInv
    <2>5. CASE Budget' >= Budget + 1 /\ Reserve' <= Reserve
      <3>1. attempts' + Cardinality(InQueue') + Cardinality(AtWork') + Reserve'
               <= attempts + Cardinality(InQueue) + Cardinality(AtWork) + Reserve + MaxAttempts
        BY <1>1, <1>2, <2>1, <2>2, <2>3, <2>5
      <3> QED  BY <1>1, <1>2, <1>3, <2>2, <2>4, <2>5, <3>1, CreditsBalance
    <2>6. CASE Budget' >= Budget /\ Reserve = MaxAttempts /\ Reserve' = 0
      <3>1. attempts' + Cardinality(InQueue') + Cardinality(AtWork') + Reserve'
               <= attempts + Cardinality(InQueue) + Cardinality(AtWork) + Reserve + 0
        BY <1>1, <1>2, <2>1, <2>2, <2>3, <2>6
      <3>2. Budget' >= Budget + 0  BY <1>2, <2>6
      <3> QED  BY <1>1, <1>2, <1>3, <2>2, <2>4, <3>1, <3>2, CreditsBalance
    <2> QED  BY <1>5, <2>5, <2>6
  <1> QED  BY <1>4, <1>5

\* A worker's credits: all of its message's while it reads the row, one less once it
\* opened an attempt, and none when it is done with the message.
LEMMA NextRetryTyped ==
    ASSUME TypeOK, CreditInv, NEW w \in Workers
    PROVE  NextRetry(w) \in 0 .. MaxAttempts
  <1>1. held[w].retries \in 0 .. MaxRetries  BY RetriesTyped DEF TypeOK, Message, CreditInv
  <1> QED  BY <1>1, RetriesTyped DEF NextRetry

LEMMA OthersUntouched ==
    ASSUME TypeOK, NEW w \in Workers, Worker(w), NEW v \in Workers \ {w}
    PROVE  pc'[v] = pc[v] /\ held'[v] = held[v]
  BY DEF TypeOK, Worker, Progress, Interrupt, Receive, Skip, Load, Start, StartConflicts,
         PutOutput, Loops, EnterLoop, ShrinkBatch, LeaveLoop, MoveTrial, RecordSuccess,
         RecordFailure, Return, MarkFailed, RaisePermanent, Retry, Ack,
         CommitFails, TimeLimitOnReturn, RetryLost, WorkerLost, HardLimit, Finish, Drop, Forget

\* The step delivers a message, opens an attempt, publishes a retry, loses the worker,
\* or does none of these; and what it does to the credits of the worker.
Delivers(w, m) ==
    /\ queue' = queue \ {m} /\ held'[w] = m
    /\ NextRetry(w) = MaxAttempts /\ NextRetry(w)' = m.retries
    /\ UNCHANGED <<attempts, sent, used>>
Opens(w) ==
    /\ NextRetry(w)' = NextRetry(w) + 1 /\ attempts' = attempts + 1 /\ held'[w] = held[w]
    /\ UNCHANGED <<queue, sent, used>>
Retries(w, m) ==
    /\ queue' = queue \cup {m} /\ NextRetry(w) = m.retries /\ m.retries <= MaxRetries
    /\ NextRetry(w)' = MaxAttempts /\ held'[w] = held[w]
    /\ UNCHANGED <<attempts, sent, used>>
Redelivers(w) ==
    /\ queue' = queue \cup {held[w]} /\ NextRetry(w)' = MaxAttempts /\ held'[w] = NoMessage
    /\ UNCHANGED <<attempts, sent>> /\ used' = [used EXCEPT !.faults = @ + 1]
Spends(w) ==
    /\ NextRetry(w)' >= NextRetry(w) /\ held'[w] \in {held[w], NoMessage}
    /\ UNCHANGED <<queue, attempts, sent>>
    /\ used' = used \/ used' = [used EXCEPT !.faults = @ + 1]

LEMMA WorkerCredits ==
    ASSUME AttemptInv, CreditInv, NEW w \in Workers, Worker(w)
    PROVE  \/ \E m \in queue : Delivers(w, m)
           \/ Opens(w)
           \/ \E m \in Message : Retries(w, m)
           \/ Redelivers(w)
           \/ Spends(w)
  <1>0. TypeOK  BY DEF AttemptInv
  <1>1. /\ pc \in [Workers -> Executing \cup {"idle", "finishing"}]
        /\ held \in [Workers -> Message]
        /\ held[w].retries \in Nat /\ held[w].retries <= MaxRetries
        /\ NextRetry(w) \in 0 .. MaxAttempts /\ MaxRetries \in Nat /\ MaxAttempts = MaxRetries + 1
    BY <1>0, NextRetryTyped, RetriesTyped DEF TypeOK, Message, CreditInv
  <1> USE DEF Live, broker
  <1>2. CASE Receive(w)
    <2>1. PICK m \in queue : queue' = queue \ {m} /\ held' = [held EXCEPT ![w] = m]
      BY <1>2 DEF Receive
    <2>2. /\ pc[w] = "idle" /\ pc'[w] = "received" /\ held'[w] = m
          /\ UNCHANGED <<attempts, sent, used>>
      BY <1>1, <1>2, <2>1 DEF Receive
    <2>3. Delivers(w, m)  BY <2>1, <2>2 DEF Delivers, NextRetry
    <2> QED  BY <2>3
  <1>3. CASE Start(w)
    <2>1. attempts' = attempts + 1
      BY <1>3, SMTT(30) DEF Start, Unused, AttemptInv, RunsContiguous, LoadedBehind, TypeOK
    <2>2. /\ pc[w] = "loaded" /\ pc'[w] = "running" /\ held' = held
          /\ UNCHANGED <<queue, sent, used>>
      BY <1>1, <1>3 DEF Start
    <2> QED  BY <2>1, <2>2 DEF Opens, NextRetry
  <1>4. CASE Retry(w)
    <2>1. /\ pc[w] = "raised" /\ pc'[w] = "finishing" /\ held' = held
          /\ queue' = queue \cup {RetryMessage(w)} /\ held[w].retries + 1 <= MaxRetries
          /\ UNCHANGED <<attempts, sent, used>>
      BY <1>1, <1>4 DEF Retry, MayRetry, RetriesLeft, RetryPublished, Finish, Forget, jobRow
    <2>2. RetryMessage(w) \in Message  BY <1>0, <1>1 DEF RetryMessage, Halve, TypeOK, Message
    <2>3. RetryMessage(w).retries = held[w].retries + 1  BY DEF RetryMessage
    <2>4. Retries(w, RetryMessage(w))  BY <2>1, <2>3 DEF Retries, NextRetry
    <2> QED  BY <2>2, <2>4
  <1>5. CASE WorkerLost(w)
    <2>1. /\ pc'[w] = "idle" /\ held'[w] = NoMessage /\ queue' = queue \cup {held[w]}
          /\ UNCHANGED <<attempts, sent>> /\ used' = [used EXCEPT !.faults = @ + 1]
      BY <1>1, <1>5 DEF WorkerLost, Drop, Forget, Fault, jobRow
    <2> QED  BY <2>1 DEF Redelivers, NextRetry
  <1>6. CASE ~Receive(w) /\ ~Start(w) /\ ~Retry(w) /\ ~WorkerLost(w)
    <2>1. CASE Load(w)
      <3>1. pc[w] = "received" /\ pc'[w] = "loaded" /\ held' = held
            /\ UNCHANGED <<queue, attempts, sent, used>>
        BY <1>1, <2>1 DEF Load, jobRow
      <3> QED  BY <1>1, <3>1 DEF Spends, NextRetry
    <2>2. CASE Loops(w) \/ \E o \in Outputs : PutOutput(w, o)
      <3>1. pc' = pc /\ held' = held /\ UNCHANGED <<queue, attempts, sent, used>>
        BY <2>2, LoopsOnly DEF PutOutput, jobRow
      <3> QED  BY <1>1, <3>1 DEF Spends, NextRetry
    <2>3. CASE RecordSuccess(w) \/ RecordFailure(w) \/ CommitFails(w) \/ TimeLimitOnReturn(w)
      <3>1. /\ pc[w] \in Live \cup {"loaded"} /\ pc'[w] \in Live /\ held' = held
            /\ UNCHANGED <<queue, attempts, sent>>
            /\ used' = used \/ used' = [used EXCEPT !.faults = @ + 1]
        BY <1>1, <2>3 DEF RecordSuccess, RecordFailure, CommitFails, TimeLimitOnReturn, Fault, jobRow
      <3>2. NextRetry(w) <= held[w].retries + 1 /\ NextRetry(w)' = held[w].retries + 1
        BY <1>1, <3>1 DEF NextRetry
      <3> QED  BY <1>1, <3>1, <3>2 DEF Spends
    <2>4. CASE \/ Skip(w) \/ StartConflicts(w) \/ Return(w) \/ MarkFailed(w) \/ RaisePermanent(w)
               \/ RetryLost(w) \/ Ack(w) \/ HardLimit(w)
      <3>1. /\ pc'[w] \in {"finishing", "idle"} /\ held'[w] \in {held[w], NoMessage}
            /\ UNCHANGED <<queue, attempts, sent>>
            /\ used' = used \/ used' = [used EXCEPT !.faults = @ + 1]
        BY <1>1, <2>4 DEF Skip, StartConflicts, Return, MarkFailed, RaisePermanent, RetryLost, Ack,
             HardLimit, Finish, Drop, Forget, Fault, jobRow
      <3>2. NextRetry(w)' = MaxAttempts  BY <3>1 DEF NextRetry
      <3> QED  BY <1>1, <3>1, <3>2 DEF Spends
    <2> QED  BY <1>6, <2>1, <2>2, <2>3, <2>4 DEF Worker, Progress, Interrupt
  <1> QED  BY <1>2, <1>3, <1>4, <1>5, <1>6

LEMMA CreditsOfWorker ==
    ASSUME AttemptInv, TypeOK', CreditInv, NEW w \in Workers, Worker(w), Reserve' = Reserve
    PROVE  CreditInv'
  <1>0. TypeOK  BY DEF AttemptInv
  <1> DEFINE a == NextRetry(w)
             b == NextRetry(w)'
  <1>1. /\ IsFiniteSet(InQueue) /\ IsFiniteSet(AtWork)
        /\ Cardinality(InQueue) \in Nat /\ Cardinality(AtWork) \in Nat
        /\ attempts \in Nat /\ Budget \in Nat /\ Reserve \in Nat
    <2>1. IsFiniteSet(InQueue) /\ IsFiniteSet(AtWork)  BY DEF CreditInv
    <2>2. Cardinality(InQueue) \in Nat /\ Cardinality(AtWork) \in Nat  BY <2>1, FS_CardinalityType
    <2> QED  BY <1>0, <2>1, <2>2, RetriesTyped DEF TypeOK, Reserve, Budget
  <1>2. \A v \in Workers \ {w} : pc'[v] = pc[v] /\ held'[v] = held[v]  BY <1>0, OthersUntouched
  <1>3. \A v \in Workers \ {w} : NextRetry(v)' = NextRetry(v)  BY <1>2 DEF NextRetry
  <1>4. a \in 0 .. MaxAttempts /\ a \in Nat  BY <1>0, NextRetryTyped, RetriesTyped
  <1>5. \A m \in queue : m.retries \in 0 .. MaxAttempts /\ m.retries \in Nat /\ m.retries <= MaxRetries
    BY <1>0, RetriesTyped DEF TypeOK, Message, CreditInv
  <1>6. held[w].retries \in 0 .. MaxAttempts /\ held[w].retries \in Nat /\ held[w].retries <= MaxRetries
    BY <1>0, RetriesTyped DEF TypeOK, Message, CreditInv
  <1>7. held'[w].retries <= MaxRetries => \A v \in Workers : held'[v].retries <= MaxRetries
    BY <1>2 DEF CreditInv
  <1>8. NoMessage.retries <= MaxRetries  BY RetriesTyped DEF NoMessage
  \* What WorkMoves says of this step.
  <1>9. ASSUME b \in 0 .. MaxAttempts
        PROVE  /\ IsFiniteSet(AtWork') /\ Cardinality(AtWork') \in Nat
               /\ Cardinality(AtWork') = Cardinality(AtWork) + a - b
    <2>1. IsFiniteSet(AtWork') /\ Cardinality(AtWork') = Cardinality(AtWork) + a - b
      BY <1>1, <1>3, <1>4, <1>9, WorkMoves
    <2> QED  BY <2>1, FS_CardinalityType
  <1>10. b \in 0 .. MaxAttempts
    <2>1. held'[w].retries \in Nat  BY DEF TypeOK, Message
    <2>2. held'[w].retries <= MaxRetries
      <3>1. CASE \E m \in queue : Delivers(w, m)  BY <1>5, <3>1 DEF Delivers
      <3>2. CASE ~ \E m \in queue : Delivers(w, m)
        BY <1>6, <1>8, <3>2, WorkerCredits DEF Opens, Retries, Redelivers, Spends
      <3> QED  BY <3>1, <3>2
    <2> QED  BY <2>1, <2>2, RetriesTyped DEF NextRetry
  <1> HIDE DEF a, b
  <1> DEFINE before == attempts + Cardinality(InQueue) + Cardinality(AtWork) + Reserve
             after  == attempts' + Cardinality(InQueue') + Cardinality(AtWork') + Reserve'
  <1>11. IsFiniteSet(AtWork') /\ Cardinality(AtWork') \in Nat
         /\ Cardinality(AtWork') = Cardinality(AtWork) + a - b /\ b \in Nat
    BY <1>9, <1>10, RetriesTyped
  <1>12. ASSUME NEW m \in queue, Delivers(w, m) PROVE CreditInv'
    <2>1. /\ IsFiniteSet(InQueue')
          /\ Cardinality(InQueue') = Cardinality(InQueue) - (MaxAttempts - m.retries)
      BY <1>1, <1>5, <1>12, QueueLoses DEF Delivers
    <2>2. a = MaxAttempts /\ b = m.retries /\ attempts' = attempts  BY <1>12 DEF Delivers, a, b
    <2>3. Cardinality(InQueue') \in Nat  BY <2>1, FS_CardinalityType
    <2>4. after <= before + 0
      BY <1>1, <1>4, <1>11, <2>1, <2>2, <2>3, <1>5
    <2>5. Budget' >= Budget + 0  BY <1>1, <1>12 DEF Delivers, Budget
    <2>6. \A n \in queue' : n.retries <= MaxRetries  BY <1>5, <1>12 DEF Delivers
    <2>7. \A v \in Workers : held'[v].retries <= MaxRetries  BY <1>5, <1>7, <1>12 DEF Delivers
    <2> QED  BY <1>0, <1>11, <2>1, <2>4, <2>5, <2>6, <2>7, CreditsBalance
  <1>13. CASE Opens(w)
    <2>1. InQueue' = InQueue  BY <1>13 DEF Opens, InQueue
    <2>2. b = a + 1 /\ attempts' = attempts + 1  BY <1>13 DEF Opens, a, b
    <2>3. after <= before + 0  BY <1>1, <1>4, <1>11, <2>1, <2>2
    <2>4. Budget' >= Budget + 0  BY <1>1, <1>13 DEF Opens, Budget
    <2>5. \A n \in queue' : n.retries <= MaxRetries  BY <1>5, <1>13 DEF Opens
    <2>6. \A v \in Workers : held'[v].retries <= MaxRetries  BY <1>6, <1>7, <1>13 DEF Opens
    <2> QED  BY <1>0, <1>1, <1>11, <2>1, <2>3, <2>4, <2>5, <2>6, CreditsBalance
  <1>14. ASSUME NEW m \in Message, Retries(w, m) PROVE CreditInv'
    <2>1. m.retries \in 0 .. MaxAttempts /\ m.retries \in Nat
      BY <1>14, RetriesTyped DEF Retries, Message
    <2>2. /\ IsFiniteSet(InQueue')
          /\ Cardinality(InQueue') <= Cardinality(InQueue) + MaxAttempts - m.retries
      BY <1>1, <1>14, <2>1, QueueGains DEF Retries
    <2>3. a = m.retries /\ b = MaxAttempts /\ attempts' = attempts  BY <1>14 DEF Retries, a, b
    <2>4. Cardinality(InQueue') \in Nat  BY <2>2, FS_CardinalityType
    <2>5. after <= before + 0  BY <1>1, <1>11, <2>1, <2>2, <2>3, <2>4, RetriesTyped
    <2>6. Budget' >= Budget + 0  BY <1>1, <1>14 DEF Retries, Budget
    <2>7. \A n \in queue' : n.retries <= MaxRetries  BY <1>5, <1>14 DEF Retries
    <2>8. \A v \in Workers : held'[v].retries <= MaxRetries  BY <1>6, <1>7, <1>14 DEF Retries
    <2> QED  BY <1>0, <1>11, <2>2, <2>5, <2>6, <2>7, <2>8, CreditsBalance
  <1>15. CASE Redelivers(w)
    <2>1. /\ IsFiniteSet(InQueue')
          /\ Cardinality(InQueue') <= Cardinality(InQueue) + MaxAttempts - held[w].retries
      BY <1>1, <1>6, <1>15, QueueGains DEF Redelivers
    <2>2. b = MaxAttempts /\ attempts' = attempts  BY <1>15 DEF Redelivers, b
    <2>3. Cardinality(InQueue') \in Nat  BY <2>1, FS_CardinalityType
    <2>4. a <= MaxAttempts  BY <1>4
    <2>5. after <= before + MaxAttempts
      BY <1>1, <1>4, <1>6, <1>11, <2>1, <2>2, <2>3, <2>4, RetriesTyped
    <2>6. Budget' >= Budget + 1  BY <1>0, <1>1, <1>15 DEF Redelivers, Budget, TypeOK
    <2>7. \A n \in queue' : n.retries <= MaxRetries  BY <1>5, <1>6, <1>15 DEF Redelivers
    <2>8. \A v \in Workers : held'[v].retries <= MaxRetries  BY <1>7, <1>8, <1>15 DEF Redelivers
    <2> QED  BY <1>0, <1>11, <2>1, <2>5, <2>6, <2>7, <2>8, CreditsBalance
  <1>16. CASE Spends(w)
    <2>1. InQueue' = InQueue  BY <1>16 DEF Spends, InQueue
    <2>2. b >= a /\ attempts' = attempts  BY <1>16 DEF Spends, a, b
    <2>3. after <= before + 0  BY <1>1, <1>4, <1>11, <2>1, <2>2
    <2>4. Budget' >= Budget + 0
      <3>1. [Next]_vars  BY DEF Next
      <3>2. Budget' >= Budget  BY <1>0, <3>1, BoundsGrow DEF Budget, TypeOK
      <3> QED  BY <1>1, <3>2
    <2>5. \A n \in queue' : n.retries <= MaxRetries  BY <1>5, <1>16 DEF Spends
    <2>6. \A v \in Workers : held'[v].retries <= MaxRetries  BY <1>6, <1>7, <1>8, <1>16 DEF Spends
    <2> QED  BY <1>0, <1>1, <1>11, <2>1, <2>3, <2>4, <2>5, <2>6, CreditsBalance
  <1> QED  BY <1>12, <1>13, <1>14, <1>15, <1>16, WorkerCredits

LEMMA CreditStep ==
    AttemptInv /\ DispatchInv /\ CreditInv /\ [Next]_vars => CreditInv'
<1> SUFFICES ASSUME AttemptInv, DispatchInv, CreditInv, [Next]_vars PROVE CreditInv'
  OBVIOUS
<1>0. TypeOK /\ TypeOK'  BY TypeStep DEF DispatchInv
<1>1. Budget' >= Budget /\ Budget \in Nat
  BY <1>0, BoundsGrow DEF Budget, TypeOK
<1>2. \A m \in queue : m.retries <= MaxRetries  BY DEF CreditInv
<1>3. \A task : NewMessage(task).retries = 0  BY DEF NewMessage
<1> USE RetriesTyped
<1>4. CASE Api
  <2> USE DEF Reserve, Unpublished
  <2>1. UNCHANGED <<attempts, pc, held>>
    BY <1>4 DEF Api, InsertJob, MarkQueued, Publish, PublishFails, StoreTaskId,
         ReturnToPending, ApiDies, jobRow, execs
  <2>2. CASE InsertJob \/ MarkQueued \/ StoreTaskId \/ ReturnToPending \/ ApiDies
    <3>1. queue' = queue /\ Reserve' <= Reserve
      BY <2>2 DEF InsertJob, MarkQueued, StoreTaskId, ReturnToPending, ApiDies, broker
    <3> QED  BY <1>0, <1>1, <2>1, <3>1, CreditsOfQueue
  <2>3. CASE Publish \/ PublishFails
    <3>1. /\ queue' \in {queue, queue \cup {NewMessage(ApiTask)}}
          /\ Reserve = MaxAttempts /\ Reserve' = 0
      BY <2>3 DEF Publish, PublishFails
    <3>2. CASE queue' = queue  BY <1>0, <1>1, <2>1, <3>1, <3>2, CreditsOfQueue
    <3>3. CASE queue' = queue \cup {NewMessage(ApiTask)}
      <4>1. NewMessage(ApiTask).retries <= MaxRetries  BY <1>3
      <4> QED  BY <1>0, <1>1, <2>1, <3>1, <3>3, <4>1, CreditsOfQueue
    <3> QED  BY <3>1, <3>2, <3>3
  <2> QED  BY <1>4, <2>2, <2>3 DEF Api
<1>5. CASE Broker
  <2>1. UNCHANGED <<attempts, pc, held>> /\ Reserve' = Reserve /\ Reserve \in Nat
    BY <1>5 DEF Broker, LoseMessage, DiscardRevoked, RestoreCopy, jobRow, execs, Reserve, Unpublished
  <2>2. CASE LoseMessage \/ DiscardRevoked
    <3>1. queue' \subseteq queue  BY <2>2 DEF LoseMessage, DiscardRevoked
    <3> QED  BY <1>0, <1>1, <2>1, <3>1, CreditsOfQueue
  <2>3. ASSUME NEW w \in Workers, RestoreCopy(w) PROVE CreditInv'
    <3>1. queue' = queue \cup {held[w]} /\ held[w].retries <= MaxRetries
      BY <2>3 DEF RestoreCopy, CreditInv
    <3>2. Budget' >= Budget + 1
      BY <1>0, <2>3 DEF RestoreCopy, Budget, TypeOK
    <3> QED  BY <1>0, <2>1, <3>1, <3>2, CreditsOfQueue
  <2> QED  BY <1>5, <2>2, <2>3 DEF Broker
<1>6. CASE Owner \/ UNCHANGED vars
  <2>1. UNCHANGED <<attempts, pc, held, queue>> /\ Reserve' = Reserve /\ Reserve \in Nat
    BY <1>6 DEF Owner, CancelLoad, CancelCommit, Revoke, jobRow, broker, execs, vars,
         Reserve, Unpublished
  <2> QED  BY <1>0, <1>1, <2>1, CreditsOfQueue
<1>7. CASE Sweeper
  <2>1. UNCHANGED <<attempts, pc, held>> /\ Reserve' = Reserve /\ Reserve \in Nat
    BY <1>7 DEF Sweeper, SweepScan, SweepPublish, SweepCommit, SweepFails, CutoffPasses,
         jobRow, execs, Reserve, Unpublished
  <2>2. CASE SweepPublish
    <3>1. /\ queue' = queue \cup {NewMessage(sent + 1)}
          /\ NewMessage(sent + 1).retries <= MaxRetries
      BY <1>3, <2>2 DEF SweepPublish
    <3>2. Budget' >= Budget + 1  BY <1>0, <2>2 DEF SweepPublish, Budget, TypeOK
    <3> QED  BY <1>0, <2>1, <3>1, <3>2, CreditsOfQueue
  <2>3. CASE SweepScan \/ SweepCommit \/ SweepFails \/ CutoffPasses
    <3>1. queue' = queue
      BY <2>3 DEF SweepScan, SweepCommit, SweepFails, CutoffPasses, broker
    <3> QED  BY <1>0, <1>1, <2>1, <3>1, CreditsOfQueue
  <2> QED  BY <1>7, <2>2, <2>3 DEF Sweeper
<1>8. ASSUME NEW w \in Workers, Worker(w) PROVE CreditInv'
  <2>1. Reserve' = Reserve
    BY <1>8 DEF Worker, Progress, Interrupt, Receive, Skip, Load, Start, StartConflicts,
         PutOutput, Loops, EnterLoop, ShrinkBatch, LeaveLoop, MoveTrial, RecordSuccess,
         RecordFailure, Return, MarkFailed, RaisePermanent, Retry, Ack,
         CommitFails, TimeLimitOnReturn, RetryLost, WorkerLost, HardLimit, Reserve, Unpublished
  <2> QED  BY <1>0, <1>8, <2>1, CreditsOfWorker
<1> QED
  BY <1>4, <1>5, <1>6, <1>7, <1>8 DEF Next

\* However messages are retried, redelivered, copied and swept, a job starts no more
\* attempts than its dispatches, copies and faults are worth.
THEOREM WorkIsBounded == Spec => []AttemptsBounded
<1>1. CreditInv /\ TypeOK => AttemptsBounded
  <2> SUFFICES ASSUME CreditInv, TypeOK PROVE attempts <= MaxAttempts * Budget
    BY DEF AttemptsBounded, MaxAttempts, Budget
  <2>1. Cardinality(InQueue) \in Nat /\ Cardinality(AtWork) \in Nat
    BY FS_CardinalityType DEF CreditInv
  <2>2. Reserve \in Nat /\ attempts \in Nat  BY RetriesTyped DEF Reserve, TypeOK
  <2>3. MaxAttempts * Budget \in Nat
    <3>1. \A r, b \in Nat : r * b \in Nat  OBVIOUS
    <3>2. Budget \in Nat  BY DEF Budget, TypeOK
    <3> QED  BY <3>1, <3>2, RetriesTyped
  <2> QED  BY <2>1, <2>2, <2>3 DEF CreditInv
<1>2. Spec => []DispatchInv
  BY DispatchInitial, DispatchStep, AttemptInvariant, PTL DEF Spec
<1>3. Spec => []CreditInv
  BY <1>2, AttemptInvariant, CreditInitial, CreditStep, PTL DEF Spec
<1> QED
  BY <1>1, <1>3, TypeCorrect, PTL
=============================================================================
