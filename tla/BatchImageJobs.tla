--------------------------- MODULE BatchImageJobs ----------------------------
(***************************************************************************)
(* The life of batch image jobs: the client's Submit and Cancel, the       *)
(* workers that follow a job at the provider, index its output and settle  *)
(* it, the recovery of submissions that stall, and what each does with the *)
(* job's balance hold.  The queue is kept as the set of jobs it holds      *)
(* (BatchImageQueue shows how it keeps them); a job's lock is in Redis and *)
(* may expire.                                                             *)
(* Source: service/batch_image_public.go, batch_image_processor.go,        *)
(* batch_image_settlement.go, batch_image_billing_recovery.go,             *)
(* batch_image_worker.go, batch_image.go, repository/batch_image_repo.go.  *)
(***************************************************************************)
EXTENDS BatchImageHold

CONSTANTS
  Workers,     \* worker loops, one per instance
  NoWorker,    \* the value of a lock nobody holds
  Costs,       \* what the images of a job may cost; above Hold it cannot settle
  MaxRetries,  \* settlement failures after which the job is given up
  Ops          \* the client's and the background operations, a subset of AllOps

AllOps == {"cancel", "recover", "resubmit", "delete", "cleanup"}

ASSUME WorkersAssumption == NoWorker \notin Workers
ASSUME CostsAssumption   == Costs \subseteq Nat
ASSUME RetriesAssumption == MaxRetries \in Nat \ {0}
ASSUME OpsAssumption     == Ops \subseteq AllOps

VARIABLES
  status,    \* batch_image_jobs.status, "none" before the row exists
  named,     \* provider_job_name is set
  hidden,    \* user_deleted_at is set: the owner cannot address the job
  retry,     \* retry_count, counted up to MaxRetries
  cost,      \* what the indexed results cost
  upstream,  \* the provider's batch job
  queued,    \* jobs some structure of the queue holds
  lock,      \* who holds the job's lock
  submit,    \* per job: next step of its Submit call
  cancel,    \* per job: next step of a Cancel call
  recover,   \* per job: next step of the billing recovery
  worker,    \* per worker: next step, its job and the status it read
  doubt,     \* history: jobs whose settlement was interrupted, or whose lock expired
  stranded   \* history: jobs a failure left to nobody

jobVars     == <<status, named, hidden, retry, cost>>
handlerVars == <<submit, cancel, recover>>
vars == <<moneyVars, jobVars, handlerVars, upstream, queued, lock, worker, doubt, stranded>>

Early    == {"created", "uploading"}
Failing  == {"failed", "cancelled"}
Settled  == {"completed", "output_deleted"}
Terminal == Failing \cup Settled
Statuses == Terminal \cup {"none", "created", "uploading", "submitted", "running",
                           "indexing", "settling"}
\* "unreported": the batch was created, and runs, but Submit was not told its name.
Upstreams == {"none", "running", "unreported", "succeeded", "failed", "cancelled"}

\* isBatchImageProcessorDoneStatus: the provider's processor has nothing left to do.
Done == Terminal \cup {"settling"}

ReleaseSteps == {"release_record", "release_quiet"}
RecordSteps  == {"record", "record_retry"}
SubmitSteps  == {"start", "reserve", "items", "upload", "provider", "name", "abort",
                 "enqueue", "retry", "returned"} \cup ReleaseSteps \cup RecordSteps
CancelSteps  == {"idle", "transition", "provider", "enqueue", "release", "retry"}
RecoverSteps == {"idle", "release", "retry"}
WorkerSteps  == {"idle", "process", "provider", "poll", "index", "index_failed",
                 "index_done", "release", "settle", "capture", "record", "mark",
                 "exhausted", "give_up", "ack"}

Idle == [step |-> "idle", job |-> "none", seen |-> "none"]

Init ==
  /\ HoldInit
  /\ status = [j \in Jobs |-> "none"]
  /\ named = [j \in Jobs |-> FALSE]
  /\ hidden = [j \in Jobs |-> FALSE]
  /\ retry = [j \in Jobs |-> 0]
  /\ cost = [j \in Jobs |-> 0]
  /\ upstream = [j \in Jobs |-> "none"]
  /\ queued = {}
  /\ lock = [j \in Jobs |-> NoWorker]
  /\ submit = [j \in Jobs |-> "start"]
  /\ cancel = [j \in Jobs |-> "idle"]
  /\ recover = [j \in Jobs |-> "idle"]
  /\ worker = [w \in Workers |-> Idle]
  /\ doubt = {}
  /\ stranded = {}

-----------------------------------------------------------------------------
(* The job's row.                                                          *)

Steps == {<<"created", "uploading">>, <<"created", "submitted">>, <<"created", "cancelled">>,
          <<"uploading", "submitted">>, <<"uploading", "cancelled">>,
          <<"submitted", "running">>, <<"submitted", "indexing">>, <<"submitted", "cancelled">>,
          <<"running", "running">>, <<"running", "indexing">>, <<"running", "cancelled">>,
          <<"indexing", "settling">>, <<"settling", "completed">>}

CanTransition(from, to) ==
  \/ from \in Terminal \ {"output_deleted"} /\ to = "output_deleted"
  \/ from \notin Terminal \cup {"none"} /\ to = "failed"
  \/ <<from, to>> \in Steps

SetStatus(j, to) == status' = [status EXCEPT ![j] = to]

\* TransitionBatchImageJobStatus, one transaction that locks the row.
Transition(j, to, r) ==
  \/ Committed(r) /\ CanTransition(status[j], to) /\ SetStatus(j, to)
  \/ r = "refused" /\ ~CanTransition(status[j], to) /\ UNCHANGED status
  \/ Errs(r) /\ UNCHANGED status

\* Enqueue: a job that is queued already stays queued.
Enqueue(j) ==
  \/ queued' = queued \cup {j} /\ UNCHANGED stranded
  \/ /\ Fails("queue")
     /\ UNCHANGED queued
     /\ stranded' = IF j \in queued THEN stranded ELSE stranded \cup {j}

-----------------------------------------------------------------------------
(* Submit, in the order of its calls.                                      *)

SubmitTo(j, step) == submit' = [submit EXCEPT ![j] = step]

SubmitUnchanged == UNCHANGED <<cancel, recover, lock, worker, doubt, retry, cost>>

CreateBatchImageJob(j) ==
  /\ submit[j] = "start"
  /\ SetStatus(j, "created")
  /\ SubmitTo(j, "reserve")
  /\ SubmitUnchanged
  /\ UNCHANGED <<moneyVars, named, hidden, upstream, queued, stranded>>

\* Mutant: a hold that was refused does not stop the submission.
ReserveIgnored(j) ==
  /\ submit[j] = "reserve"
  /\ \E r \in Answers : ReserveBatchImageBalance(j, r)
  /\ SubmitTo(j, "items")
  /\ SubmitUnchanged
  /\ UNCHANGED <<status, named, hidden, upstream, queued, stranded>>

\* A reservation whose answer is lost is taken for a failure: the hold stays.
SubmitReserve(j) ==
  /\ submit[j] = "reserve"
  /\ \E r \in Answers :
       /\ ReserveBatchImageBalance(j, r)
       /\ SubmitTo(j, IF r = "ok" THEN "items" ELSE "record")
       /\ stranded' = IF r = "lost" THEN stranded \cup {j} ELSE stranded
  /\ SubmitUnchanged
  /\ UNCHANGED <<status, named, hidden, upstream, queued>>

SubmitItems(j) ==
  /\ submit[j] = "items"
  /\ \/ SubmitTo(j, "upload")
     \/ Fails("db") /\ SubmitTo(j, "release_record")
  /\ SubmitUnchanged
  /\ UNCHANGED <<moneyVars, status, named, hidden, upstream, queued, stranded>>

\* A refusal means that the job was ended meanwhile: its status is left alone.
SubmitUpload(j) ==
  /\ submit[j] = "upload"
  /\ \E r \in Answers :
       /\ Transition(j, "uploading", r)
       /\ SubmitTo(j, CASE r = "ok"      -> "provider"
                        [] r = "refused" -> "release_quiet"
                        [] OTHER         -> "release_record")
  /\ SubmitUnchanged
  /\ UNCHANGED <<moneyVars, named, hidden, upstream, queued, stranded>>

\* An error (a timeout, an answer that cannot be decoded) or an answer without a name
\* fails the submission; the provider may have created the batch all the same, and
\* then nobody can follow it or stop it.
SubmitProvider(j) ==
  /\ submit[j] = "provider"
  /\ \/ /\ upstream' = [upstream EXCEPT ![j] = "running"]
        /\ SubmitTo(j, "name")
     \/ /\ Fails("provider")
        /\ SubmitTo(j, "release_record")
        /\ UNCHANGED upstream \/ upstream' = [upstream EXCEPT ![j] = "unreported"]
  /\ SubmitUnchanged
  /\ UNCHANGED <<moneyVars, status, named, hidden, queued, stranded>>

\* Mutant: the provider's job is left running when the row cannot be updated.
NameNoAbort(j) ==
  /\ submit[j] = "name"
  /\ \E r \in Answers :
       /\ Transition(j, "submitted", r)
       /\ named' = IF r \in {"ok", "lost"} THEN [named EXCEPT ![j] = TRUE] ELSE named
       /\ SubmitTo(j, IF r = "ok" THEN "enqueue" ELSE "returned")
  /\ SubmitUnchanged
  /\ UNCHANGED <<moneyVars, hidden, upstream, queued, stranded>>

\* UpdateBatchImageJobProviderSubmit; on any error the provider's job is aborted.
SubmitName(j) ==
  /\ submit[j] = "name"
  /\ \E r \in Answers :
       /\ Transition(j, "submitted", r)
       /\ named' = IF r \in {"ok", "lost"} THEN [named EXCEPT ![j] = TRUE] ELSE named
       /\ SubmitTo(j, IF r = "ok" THEN "enqueue" ELSE "abort")
       /\ stranded' = IF r = "lost" THEN stranded \cup {j} ELSE stranded
  /\ SubmitUnchanged
  /\ UNCHANGED <<moneyVars, hidden, upstream, queued>>

\* provider.Cancel stops a job that still runs, and may fail after it did.
StopUpstream(j) ==
  upstream' = [upstream EXCEPT ![j] = IF @ = "running" THEN "cancelled" ELSE @]

abortOrphanProviderJob(j) ==
  /\ submit[j] = "abort"
  /\ \/ StopUpstream(j) /\ UNCHANGED stranded
     \/ /\ Fails("provider")
        /\ stranded' = stranded \cup {j}
        /\ StopUpstream(j) \/ UNCHANGED upstream
  /\ SubmitTo(j, "returned")
  /\ SubmitUnchanged
  /\ UNCHANGED <<moneyVars, status, named, hidden, queued>>

SubmitEnqueue(j) ==
  /\ submit[j] = "enqueue"
  /\ Enqueue(j)
  /\ SubmitTo(j, "returned")
  /\ SubmitUnchanged
  /\ UNCHANGED <<moneyVars, status, named, hidden, upstream>>

\* releaseFailedSubmitHold: a release that fails is left to the queue.
SubmitRelease(j) ==
  /\ submit[j] \in ReleaseSteps
  /\ \E r \in Answers :
       /\ ReleaseBatchImageBalance(j, r)
       /\ SubmitTo(j, IF r # "ok" THEN "record_retry"
                      ELSE IF submit[j] = "release_record" THEN "record" ELSE "returned")
  /\ SubmitUnchanged
  /\ UNCHANGED <<status, named, hidden, upstream, queued, stranded>>

\* RecordBatchImageJobSubmitFailure fails the job whatever its status, an error is
\* ignored; a failure before the provider hides the job from its owner.
SubmitRecord(j) ==
  /\ submit[j] \in RecordSteps
  /\ SetStatus(j, "failed") \/ (Fails("db") /\ UNCHANGED status)
  /\ hidden' = [hidden EXCEPT ![j] = @ \/ (submit[j] = "record" /\ status'[j] \in Terminal)]
  /\ SubmitTo(j, IF submit[j] = "record_retry" THEN "retry" ELSE "returned")
  /\ SubmitUnchanged
  /\ UNCHANGED <<moneyVars, named, upstream, queued, stranded>>

\* Mutant: nothing retries the release.
NoRetry(j) ==
  /\ submit[j] = "retry"
  /\ SubmitTo(j, "returned")
  /\ SubmitUnchanged
  /\ UNCHANGED <<moneyVars, status, named, hidden, upstream, queued, stranded>>

\* enqueueBillingRetry
SubmitRetry(j) ==
  /\ submit[j] = "retry"
  /\ Enqueue(j)
  /\ SubmitTo(j, "returned")
  /\ SubmitUnchanged
  /\ UNCHANGED <<moneyVars, status, named, hidden, upstream>>

SubmitCrash(j) ==
  /\ Fails("crash")
  /\ submit[j] \notin {"start", "returned"}
  /\ SubmitTo(j, "returned")
  /\ stranded' = IF submit[j] \in {"enqueue", "retry", "name", "abort"}
                 THEN stranded \cup {j} ELSE stranded
  /\ SubmitUnchanged
  /\ UNCHANGED <<moneyVars, status, named, hidden, upstream, queued>>

\* The client sends the request again with its idempotency key: a submitted job is
\* put back into the queue.
Resubmit(j) ==
  /\ "resubmit" \in Ops
  /\ status[j] = "submitted"
  /\ Enqueue(j)
  /\ UNCHANGED <<moneyVars, jobVars, handlerVars, upstream, lock, worker, doubt>>

SubmitNext(j) ==
  \/ CreateBatchImageJob(j) \/ SubmitReserve(j) \/ SubmitItems(j) \/ SubmitUpload(j)
  \/ SubmitProvider(j) \/ SubmitName(j) \/ abortOrphanProviderJob(j) \/ SubmitEnqueue(j)
  \/ SubmitRelease(j) \/ SubmitRecord(j) \/ SubmitRetry(j) \/ SubmitCrash(j) \/ Resubmit(j)

-----------------------------------------------------------------------------
(* Cancel.  The row is read first; what follows goes by what was read.     *)

CancelTo(j, step) == cancel' = [cancel EXCEPT ![j] = step]

CancelUnchanged == UNCHANGED <<submit, recover, lock, worker, doubt, named, hidden, retry, cost>>

\* A job that settles or has completed is answered as it is.
CancelRead(j) ==
  /\ "cancel" \in Ops
  /\ cancel[j] = "idle"
  /\ status[j] # "none" /\ ~hidden[j]
  /\ status[j] \notin Done \ Failing
  /\ CancelTo(j, IF status[j] \in Failing THEN "release"
                 ELSE IF named[j] THEN "provider" ELSE "transition")
  /\ CancelUnchanged
  /\ UNCHANGED <<moneyVars, status, upstream, queued, stranded>>

CancelProvider(j) ==
  /\ cancel[j] = "provider"
  /\ \/ StopUpstream(j) /\ CancelTo(j, "enqueue")
     \/ /\ Fails("provider")
        /\ CancelTo(j, "idle")
        /\ StopUpstream(j) \/ UNCHANGED upstream
  /\ CancelUnchanged
  /\ UNCHANGED <<moneyVars, status, queued, stranded>>

\* An error of the transition ends the call; if it committed, nobody releases.
CancelTransition(j) ==
  /\ cancel[j] = "transition"
  /\ \E r \in Answers :
       /\ Transition(j, "cancelled", r)
       /\ CancelTo(j, IF r = "ok" THEN "release" ELSE "idle")
       /\ stranded' = IF r = "lost" THEN stranded \cup {j} ELSE stranded
  /\ CancelUnchanged
  /\ UNCHANGED <<moneyVars, upstream, queued>>

CancelRelease(j) ==
  /\ cancel[j] = "release"
  /\ \E r \in Answers :
       /\ ReleaseBatchImageBalance(j, r)
       /\ CancelTo(j, IF r = "ok" THEN "idle" ELSE "retry")
  /\ CancelUnchanged
  /\ UNCHANGED <<status, upstream, queued, stranded>>

\* The job goes (back) into the queue: the provider's answer, or a release, is due.
CancelEnqueue(j) ==
  /\ cancel[j] \in {"enqueue", "retry"}
  /\ Enqueue(j)
  /\ CancelTo(j, "idle")
  /\ CancelUnchanged
  /\ UNCHANGED <<moneyVars, status, upstream>>

CancelCrash(j) ==
  /\ Fails("crash")
  /\ cancel[j] # "idle"
  /\ CancelTo(j, "idle")
  /\ stranded' = IF cancel[j] \in {"release", "retry"} THEN stranded \cup {j} ELSE stranded
  /\ CancelUnchanged
  /\ UNCHANGED <<moneyVars, status, upstream, queued>>

CancelNext(j) ==
  \/ CancelRead(j) \/ CancelProvider(j) \/ CancelTransition(j)
  \/ CancelRelease(j) \/ CancelEnqueue(j) \/ CancelCrash(j)

-----------------------------------------------------------------------------
(* The recovery of submissions that stalled before the provider.           *)

RecoverTo(j, step) == recover' = [recover EXCEPT ![j] = step]

RecoverUnchanged == UNCHANGED <<submit, cancel, lock, worker, doubt, named, hidden, retry, cost>>

\* A submission can stall, and its heartbeat fail, for any time: the age that
\* FailStaleUnsubmittedBatchImageJob asks for is the choice to take the step.
Stale(j) == status[j] \in Early /\ ~named[j]

RecoverFail(j) ==
  /\ "recover" \in Ops
  /\ recover[j] = "idle"
  /\ Stale(j)
  /\ SetStatus(j, "failed")
  /\ \/ RecoverTo(j, "release") /\ UNCHANGED stranded
     \/ Fails("lost") /\ UNCHANGED recover /\ stranded' = stranded \cup {j}
  /\ RecoverUnchanged
  /\ UNCHANGED <<moneyVars, upstream, queued>>

RecoverRelease(j) ==
  /\ recover[j] = "release"
  /\ \E r \in Answers :
       /\ ReleaseBatchImageBalance(j, r)
       /\ RecoverTo(j, IF r = "ok" THEN "idle" ELSE "retry")
  /\ RecoverUnchanged
  /\ UNCHANGED <<status, upstream, queued, stranded>>

\* enqueueReleaseRetry
RecoverRetry(j) ==
  /\ recover[j] = "retry"
  /\ Enqueue(j)
  /\ RecoverTo(j, "idle")
  /\ RecoverUnchanged
  /\ UNCHANGED <<moneyVars, status, upstream>>

RecoverCrash(j) ==
  /\ Fails("crash")
  /\ recover[j] # "idle"
  /\ RecoverTo(j, "idle")
  /\ stranded' = stranded \cup {j}
  /\ RecoverUnchanged
  /\ UNCHANGED <<moneyVars, status, upstream, queued>>

RecoverNext(j) == RecoverFail(j) \/ RecoverRelease(j) \/ RecoverRetry(j) \/ RecoverCrash(j)

-----------------------------------------------------------------------------
(* The provider, the owner's deletions and the cleanup of outputs.         *)

EnvUnchanged == UNCHANGED <<moneyVars, handlerVars, queued, lock, worker, doubt, stranded,
                            named, retry, cost>>

\* The provider ends a job in its own time, or expires it.
UpstreamEnds(j) ==
  /\ upstream[j] = "running"
  /\ \E s \in {"succeeded", "failed"} : upstream' = [upstream EXCEPT ![j] = s]
  /\ EnvUnchanged
  /\ UNCHANGED <<status, hidden>>

MarkBatchImageJobUserDeleted(j) ==
  /\ "delete" \in Ops
  /\ status[j] \in Terminal
  /\ ~hidden[j]
  /\ hidden' = [hidden EXCEPT ![j] = TRUE]
  /\ EnvUnchanged
  /\ UNCHANGED <<status, upstream>>

MarkBatchImageOutputDeleted(j) ==
  /\ "cleanup" \in Ops
  /\ status[j] = "completed"
  /\ SetStatus(j, "output_deleted")
  /\ EnvUnchanged
  /\ UNCHANGED <<hidden, upstream>>

EnvNext(j) ==
  UpstreamEnds(j) \/ MarkBatchImageJobUserDeleted(j) \/ MarkBatchImageOutputDeleted(j)

-----------------------------------------------------------------------------
(* A worker: RunOnce, and the Process call of the pipeline.                *)

WorkerTo(w, step) ==
  /\ worker' = [worker EXCEPT ![w] = [step |-> step, job |-> @.job, seen |-> @.seen]]
  /\ UNCHANGED <<lock, queued>>

\* Release frees the lock if it is still this worker's.
LeaveJob(w) ==
  /\ worker' = [worker EXCEPT ![w] = Idle]
  /\ lock' = [j \in Jobs |-> IF j = worker[w].job /\ lock[j] = w THEN NoWorker ELSE lock[j]]

\* The call returns without a terminal result: RequeueAfter keeps the job in the
\* queue, and puts it back if another worker has acknowledged it meanwhile.
Requeue(w) ==
  /\ LeaveJob(w)
  /\ queued' = queued \cup {worker[w].job} \/ (Fails("queue") /\ UNCHANGED queued)

At(w, step, j) == worker[w].step = step /\ worker[w].job = j

WorkerUnchanged == UNCHANGED <<handlerVars, upstream, stranded, named, hidden>>

\* Reserve and TryAcquireJobLock.
RunOnce(w, j) ==
  /\ worker[w].step = "idle"
  /\ j \in queued
  /\ lock[j] = NoWorker
  /\ lock' = [lock EXCEPT ![j] = w]
  /\ worker' = [worker EXCEPT ![w] = [step |-> "process", job |-> j, seen |-> "none"]]
  /\ WorkerUnchanged
  /\ UNCHANGED <<moneyVars, status, retry, cost, queued, doubt>>

\* BatchImagePipelineProcessor.Process: the first read of the row.
ProcessRead(w, j) ==
  /\ At(w, "process", j)
  /\ \/ WorkerTo(w, IF status[j] = "settling" THEN "settle" ELSE "provider")
     \/ Fails("db") /\ Requeue(w)
  /\ WorkerUnchanged
  /\ UNCHANGED <<moneyVars, status, retry, cost, doubt>>

\* Mutant: the hold of every finished job is released.
ReleaseAlways(j) == "release"

\* releaseTerminalHold releases the hold of failed and cancelled jobs only.
AfterDone(j) == IF status[j] \in Failing THEN "release" ELSE "ack"

\* BatchImageProviderProcessor.Process: the second read.
ProviderRead(w, j) ==
  /\ At(w, "provider", j)
  /\ \/ /\ status[j] \in Done
        /\ WorkerTo(w, AfterDone(j))
     \/ /\ status[j] \notin Done /\ named[j]
        /\ worker' = [worker EXCEPT ![w] =
             [step |-> IF status[j] = "indexing" THEN "index" ELSE "poll",
              job  |-> j, seen |-> status[j]]]
        /\ UNCHANGED <<lock, queued>>
     \/ status[j] \notin Done /\ ~named[j] /\ Requeue(w)
     \/ Fails("db") /\ Requeue(w)
  /\ WorkerUnchanged
  /\ UNCHANGED <<moneyVars, status, retry, cost, doubt>>

\* The transition of a step, which goes on to next if it succeeds.
MoveOn(w, j, to, next) ==
  \E r \in Answers :
    /\ Transition(j, to, r)
    /\ IF r = "ok" /\ next # "requeue" THEN WorkerTo(w, next) ELSE Requeue(w)

\* The provider's answer is applied to the row; a job that is still queued there, or
\* was seen running before, leaves it as it is.
ProviderPoll(w, j) ==
  /\ At(w, "poll", j)
  /\ \/ upstream[j] = "running" /\ worker[w].seen # "running" /\ MoveOn(w, j, "running", "requeue")
     \/ upstream[j] = "running" /\ Requeue(w) /\ UNCHANGED status
     \/ upstream[j] = "succeeded" /\ MoveOn(w, j, "indexing", "index")
     \/ upstream[j] = "failed" /\ MoveOn(w, j, "failed", "release")
     \/ upstream[j] = "cancelled" /\ MoveOn(w, j, "cancelled", "release")
     \/ Fails("provider") /\ Requeue(w) /\ UNCHANGED status
  /\ WorkerUnchanged
  /\ UNCHANGED <<moneyVars, retry, cost, doubt>>

\* Mutant: the items are replaced whatever the status.
IndexAnyway(w, j) ==
  /\ At(w, "index", j)
  /\ \E c \in Costs : cost' = [cost EXCEPT ![j] = c]
  /\ WorkerTo(w, "index_done")
  /\ WorkerUnchanged
  /\ UNCHANGED <<moneyVars, status, retry, doubt>>

\* Index: a missing output is tried again; an output that cannot be parsed, and any
\* error of the database, fails the job.
Index(w, j) ==
  /\ At(w, "index", j)
  /\ \/ /\ status[j] = "indexing"
        /\ \E c \in Costs : cost' = [cost EXCEPT ![j] = c]
        /\ WorkerTo(w, "index_done")
     \/ status[j] # "indexing" /\ Requeue(w) /\ UNCHANGED cost
     \/ Fails("provider") /\ (Requeue(w) \/ WorkerTo(w, "index_failed")) /\ UNCHANGED cost
     \/ Fails("db") /\ WorkerTo(w, "index_failed") /\ UNCHANGED cost
  /\ WorkerUnchanged
  /\ UNCHANGED <<moneyVars, status, retry, doubt>>

IndexEnds(w, j) ==
  /\ \/ At(w, "index_done", j) /\ MoveOn(w, j, "settling", "requeue")
     \/ At(w, "index_failed", j) /\ MoveOn(w, j, "failed", "release")
  /\ WorkerUnchanged
  /\ UNCHANGED <<moneyVars, retry, cost, doubt>>

\* releaseTerminalHold
TerminalRelease(w, j) ==
  /\ At(w, "release", j)
  /\ \E r \in Answers :
       /\ ReleaseBatchImageBalance(j, r)
       /\ IF r = "ok" THEN WorkerTo(w, "ack") ELSE Requeue(w)
  /\ WorkerUnchanged
  /\ UNCHANGED <<status, retry, cost, doubt>>

\* Settle: the row is read again, and the retries are counted before anything else.
SettleRead(w, j) ==
  /\ At(w, "settle", j)
  /\ \/ status[j] = "completed" /\ WorkerTo(w, "ack")
     \/ status[j] \notin {"completed", "settling"} /\ Requeue(w)
     \/ /\ status[j] = "settling"
        /\ WorkerTo(w, IF retry[j] >= MaxRetries THEN "exhausted"
                       ELSE IF cost[j] > Hold THEN "record" ELSE "capture")
     \/ Fails("db") /\ Requeue(w)
  /\ WorkerUnchanged
  /\ UNCHANGED <<moneyVars, status, retry, cost, doubt>>

\* Mutant: the job is completed though its capture failed.
CaptureIgnored(w, j) ==
  /\ At(w, "capture", j)
  /\ \E r \in Answers : CaptureBatchImageBalance(j, cost[j], r)
  /\ WorkerTo(w, "mark")
  /\ WorkerUnchanged
  /\ UNCHANGED <<status, retry, cost, doubt>>

\* After the commit a failure leaves it open whether the job is charged.
SettleCapture(w, j) ==
  /\ At(w, "capture", j)
  /\ \E r \in Answers :
       /\ CaptureBatchImageBalance(j, cost[j], r)
       /\ WorkerTo(w, IF r = "ok" THEN "mark" ELSE "record")
       /\ doubt' = IF r = "lost" THEN doubt \cup {j} ELSE doubt
  /\ WorkerUnchanged
  /\ UNCHANGED <<status, retry, cost>>

CountRetry(j) == retry' = [retry EXCEPT ![j] = IF @ < MaxRetries THEN @ + 1 ELSE @]

\* recordSettlementFailure: an error of the statement is ignored.
SettleRecord(w, j) ==
  /\ At(w, "record", j)
  /\ \/ /\ CountRetry(j)
        /\ IF retry'[j] >= MaxRetries THEN WorkerTo(w, "exhausted") ELSE Requeue(w)
     \/ Fails("lost") /\ CountRetry(j) /\ Requeue(w)
     \/ Fails("db") /\ UNCHANGED retry /\ Requeue(w)
  /\ WorkerUnchanged
  /\ UNCHANGED <<moneyVars, status, cost, doubt>>

\* MarkBatchImageJobSettled: only a settling row is completed.
SettleMark(w, j) ==
  /\ At(w, "mark", j)
  /\ \/ status[j] = "settling" /\ SetStatus(j, "completed") /\ WorkerTo(w, "ack") /\ UNCHANGED doubt
     \/ /\ status[j] = "settling" /\ Fails("lost")
        /\ SetStatus(j, "completed") /\ Requeue(w) /\ UNCHANGED doubt
     \/ status[j] # "settling" /\ Requeue(w) /\ UNCHANGED <<status, doubt>>
     \/ Fails("db") /\ Requeue(w) /\ doubt' = doubt \cup {j} /\ UNCHANGED status
  /\ WorkerUnchanged
  /\ UNCHANGED <<moneyVars, retry, cost>>

\* failExhaustedSettlement: release first, then fail the job.
failExhaustedSettlement(w, j) ==
  /\ \/ /\ At(w, "exhausted", j)
        /\ \E r \in Answers :
             /\ ReleaseBatchImageBalance(j, r)
             /\ IF r = "ok" THEN WorkerTo(w, "give_up") ELSE Requeue(w)
        /\ UNCHANGED status
     \/ At(w, "give_up", j) /\ MoveOn(w, j, "failed", "ack") /\ UNCHANGED moneyVars
  /\ WorkerUnchanged
  /\ UNCHANGED <<retry, cost, doubt>>

\* A refused Ack, or a second entry in the ready list, leaves the job in the queue.
Ack(w, j) ==
  /\ At(w, "ack", j)
  /\ LeaveJob(w)
  /\ queued' = queued \ {j} \/ (Fails("queue") /\ UNCHANGED queued)
  /\ WorkerUnchanged
  /\ UNCHANGED <<moneyVars, status, retry, cost, doubt>>

\* The dead worker's job stays queued, its lock stays until it expires.
WorkerCrash(w, j) ==
  /\ Fails("crash")
  /\ worker[w].step # "idle" /\ worker[w].job = j
  /\ worker' = [worker EXCEPT ![w] = Idle]
  /\ doubt' = IF worker[w].step = "mark" THEN doubt \cup {j} ELSE doubt
  /\ WorkerUnchanged
  /\ UNCHANGED <<moneyVars, status, retry, cost, queued, lock>>

\* A lock expires after its worker died, or when its renewals fail.
LockExpires(j) ==
  LET working == \E w \in Workers : lock[j] = w /\ worker[w].job = j IN
  /\ lock[j] # NoWorker
  /\ working => Fails("lock")
  /\ lock' = [lock EXCEPT ![j] = NoWorker]
  /\ doubt' = IF working THEN doubt \cup {j} ELSE doubt
  /\ WorkerUnchanged
  /\ UNCHANGED <<moneyVars, status, retry, cost, queued, worker>>

WorkerNext(w, j) ==
  \/ RunOnce(w, j) \/ ProcessRead(w, j) \/ ProviderRead(w, j) \/ ProviderPoll(w, j)
  \/ Index(w, j) \/ IndexEnds(w, j) \/ TerminalRelease(w, j) \/ SettleRead(w, j)
  \/ SettleCapture(w, j) \/ SettleRecord(w, j) \/ SettleMark(w, j)
  \/ failExhaustedSettlement(w, j) \/ Ack(w, j) \/ WorkerCrash(w, j)

-----------------------------------------------------------------------------
Next ==
  \E j \in Jobs :
    \/ SubmitNext(j) \/ CancelNext(j) \/ RecoverNext(j) \/ EnvNext(j) \/ LockExpires(j)
    \/ \E w \in Workers : WorkerNext(w, j)

Spec == Init /\ [][Next]_vars

-----------------------------------------------------------------------------
(* Properties.                                                             *)

\* The types of the state: rows, claims, steps of every handler and worker.
TypeOK ==
  /\ balance \in Nat /\ frozen \in Nat
  /\ dedup \in [Operations -> SUBSET Jobs]
  /\ returned \subseteq Jobs /\ queued \subseteq Jobs
  /\ doubt \subseteq Jobs /\ stranded \subseteq Jobs
  /\ status \in [Jobs -> Statuses]
  /\ named \in [Jobs -> BOOLEAN] /\ hidden \in [Jobs -> BOOLEAN]
  /\ retry \in [Jobs -> 0 .. MaxRetries]
  /\ cost \in [Jobs -> Nat]
  /\ upstream \in [Jobs -> Upstreams]
  /\ lock \in [Jobs -> Workers \cup {NoWorker}]
  /\ submit \in [Jobs -> SubmitSteps]
  /\ cancel \in [Jobs -> CancelSteps]
  /\ recover \in [Jobs -> RecoverSteps]
  /\ worker \in [Workers -> [step : WorkerSteps, job : Jobs \cup {"none"}, seen : Statuses]]

\* frozen_balance is the sum of the holds not yet captured or given back: no
\* reserve, capture or release of any interleaving counts a hold twice or not at all.
FrozenIsHolds ==
  frozen = Elsewhere + Hold * (Cardinality(dedup["hold"]) - Cardinality(dedup["capture"])
                               - Cardinality(returned))

\* Only a job that froze its hold is ever charged: the capture does not check the
\* claim of the hold, the order of Submit's and the worker's steps has to.
ChargedWasHeld == \A j \in Jobs : Captured(j) => Held(j)

\* A hold is not both charged and given back, as long as no settlement was
\* interrupted between the capture and the completed row and no lock expired.
ChargedOrReturned == \A j \in Jobs : Captured(j) /\ Returned(j) => j \in doubt

\* A completed job was charged and a failed or cancelled one was not, under the
\* same condition: the row and the money agree at the end of a job.
StatusMatchesMoney ==
  \A j \in Jobs :
    /\ status[j] \in Settled => Captured(j)
    /\ status[j] \in Failing /\ Captured(j) => j \in doubt

\* Whatever spends a hold comes after it: the order of Submit carries over to the
\* status, and the status to the worker that captures.
HeldFirst ==
  \A j \in Jobs :
    /\ Captured(j) => Held(j)
    /\ Returned(j) => Held(j) /\ Released(j)
    /\ submit[j] \in {"items", "upload", "provider", "name"} => Held(j)
    /\ status[j] \notin {"none", "created"} \cup Failing => Held(j)

\* Until Submit has recorded the provider's name nobody takes the job further, and
\* the handlers that release go by a failed or cancelled row.
BeforeName ==
  \A j \in Jobs :
    /\ submit[j] = "start" <=> status[j] = "none"
    /\ submit[j] \in {"reserve", "items", "upload", "provider", "name"} \cup ReleaseSteps
                     \cup RecordSteps => status[j] \in Early \cup Failing
    /\ "release" \in {cancel[j], recover[j]} => status[j] \in Failing
    /\ named[j] => submit[j] \in {"enqueue", "abort", "returned"}
    /\ submit[j] \in {"start", "reserve"} => ~Held(j)
    /\ submit[j] = "record" => ~Held(j) \/ Released(j) \/ j \in stranded

\* What a worker knows of its job, and knows for sure while its lock is its own.
WorkerKnows ==
  \A w \in Workers : worker[w].step # "idle" =>
    LET j == worker[w].job step == worker[w].step IN
    /\ j \in Jobs
    /\ step = "release" => status[j] \in Failing
    /\ step \in {"capture", "mark", "record", "exhausted", "give_up"} => status[j] \in Done
    /\ step = "capture" => Held(j) /\ cost[j] <= Hold
    /\ step = "mark" => Captured(j)
    /\ step \in {"exhausted", "give_up"} => retry[j] >= MaxRetries
    /\ step = "give_up" => Released(j)
    /\ j \notin doubt =>
         /\ lock[j] = w /\ j \in queued
         /\ step = "provider" => status[j] # "settling"
         /\ step = "ack" => Captured(j) \/ Released(j)
         /\ step \in {"capture", "mark", "record", "exhausted", "give_up"} =>
              status[j] = "settling"
         /\ step = "capture" => ~Returned(j)

\* The row and the claims of a job agree.
MoneyMatches ==
  \A j \in Jobs :
    /\ status[j] \in Settled => Captured(j)
    /\ Captured(j) /\ j \notin doubt =>
         \/ status[j] \in Settled
         \/ status[j] = "settling" /\ \E w \in Workers : At(w, "mark", j)
    /\ Returned(j) /\ j \notin doubt =>
         \/ status[j] \in Failing
         \/ status[j] = "settling" /\ retry[j] >= MaxRetries
         \/ /\ status[j] \in Early
            /\ submit[j] \notin {"start", "reserve", "items", "upload", "provider", "name"}
    /\ Captured(j) /\ Returned(j) => j \in doubt

\* Somebody is still going to settle the hold of j: the worker that finds it in the
\* queue, the recovery of stalled submissions, or a handler about to release or enqueue.
Owned(j) ==
  \/ j \in queued
  \/ Stale(j)
  \/ submit[j] \in {"retry", "enqueue"}
  \/ cancel[j] \in {"release", "retry"}
  \/ recover[j] \in {"release", "retry"}

\* The job of a hold about to be made, or not yet settled, has an owner, unless a
\* failure left it behind or its release was claimed too early.
OwnerKept ==
  \A j \in Jobs : (Held(j) \/ submit[j] = "reserve") /\ ~Captured(j) /\ ~Returned(j) =>
    Owned(j) \/ j \in stranded \cup doubt \/ Burnt(j)

\* The inductive invariant: the parts above and the types, which every interleaving
\* of Submit, Cancel, recovery and workers keeps.
IInv == TypeOK /\ HeldFirst /\ BeforeName /\ WorkerKnows /\ MoneyMatches /\ OwnerKept

\* Every outstanding hold has an owner: a handler that will release it, the queue
\* or the recovery, unless a crash, a lost answer or Redis left it behind, or its
\* release was claimed before it (a Cancel that came before the reserve).
HoldOwnedOrBurnt ==
  \A j \in Jobs : Outstanding(j) => Owned(j) \/ j \in stranded \cup doubt \/ Burnt(j)

\* A job whose provider name is not in the row is never charged and ends failed or
\* cancelled.  If the name came back and the batch runs, Submit is about to record it
\* or to abort the batch, or has failed to; if Submit was answered with an error, the
\* batch runs unknown to everybody, and the name is never in the row.
UnnamedIsStopped ==
  \A j \in Jobs :
    /\ ~named[j] => ~Captured(j) /\ status[j] \in {"none"} \cup Early \cup Failing
    /\ upstream[j] = "running" /\ ~named[j] =>
         submit[j] \in {"name", "abort"} \/ j \in stranded
    /\ upstream[j] = "unreported" => ~named[j]

\* Who polls, indexes or settles a job has seen its name, and Submit goes nowhere near
\* a name after an error of the provider.
NamedSteps == {"poll", "index", "index_failed", "index_done", "settle", "capture",
               "record", "mark", "exhausted", "give_up"}

NameInv ==
  /\ UnnamedIsStopped
  /\ \A j \in Jobs : upstream[j] = "unreported" =>
       submit[j] \in ReleaseSteps \cup RecordSteps \cup {"retry", "returned"}
  /\ \A w \in Workers : worker[w].step \in NamedSteps => named[worker[w].job]

CompletedStep ==
  \A j \in Jobs : status[j] \in Settled =>
    status'[j] \in Settled /\ cost'[j] = cost[j]

\* What a job was charged and that it ended are never taken back: a completed row
\* stays completed (or loses its output), whatever late handlers still do.
CompletedStays == [][CompletedStep]_vars
=============================================================================
