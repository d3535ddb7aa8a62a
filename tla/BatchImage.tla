----------------------------- MODULE BatchImage -----------------------------
(***************************************************************************)
(* One batch image job, from its submission to its settlement.  The        *)
(* request handler that submits it, the client that cancels it, resubmits  *)
(* it or deletes its record, the billing recovery loop and the queue       *)
(* workers act on the same row, the same billing store and the same queue. *)
(* A step of one of them is one statement, script or provider call; a      *)
(* statement may fail, or take effect and have its answer lost, and any of *)
(* the processes may die between two steps.                                *)
(*                                                                         *)
(* The services are wired in one of two ways: for customers, whose balance *)
(* pays, or for the private operator, for whom nothing is frozen, billing  *)
(* recovery does nothing, and settlement adds to usage counters.           *)
(***************************************************************************)
EXTENDS BatchImageBilling, BatchImageQueue

CONSTANTS
    Workers,     \* worker loops, one in each process
    NoWorker,    \* the lock key does not exist
    MaxRetries,  \* batchImageSettlementMaxRetries
    MaxFaults,   \* bound on faults: failed statements, crashes, stalls
    MaxReady     \* bound on the job's entries in the ready list

ASSUME BoundsAssumption ==
    /\ NoWorker \notin Workers
    /\ MaxRetries \in Nat \ {0} /\ MaxFaults \in Nat /\ MaxReady \in Nat \ {0}

VARIABLES
    private,   \* whether the services are wired for the private operator
    job,       \* the job's row
    wallet,    \* the billing store, as far as the job can touch it
    queue,     \* the job in the Redis queue
    lock,      \* holder of the job's lock key
    upstream,  \* the provider's batch job
    output,    \* what the provider's batch job produced
    sub,       \* progress of Submit
    client,    \* progress of the client's Cancel or resubmission
    rec,       \* progress of ReleaseStaleUnsubmittedOnce
    worker,    \* worker[x]: progress of x's RunOnce
    faults,    \* faults so far
    orphan,    \* ghost: Submit lost track of a provider job
    abandoned, \* ghost: a fault cut off the release of a hold
    strayed    \* ghost: a worker without the lock failed the job

vars == <<private, job, wallet, queue, lock, upstream, output, sub, client,
          rec, worker, faults, orphan, abandoned, strayed>>

ghosts == <<orphan, abandoned, strayed>>

-----------------------------------------------------------------------------
(* The job's row.                                                          *)

Unsubmitted == {"created", "uploading"}
Refunding == {"failed", "cancelled"}
Terminal == {"completed", "output_deleted"} \cup Refunding
Statuses == {"none", "submitted", "running", "indexing", "settling"}
              \cup Unsubmitted \cup Terminal

\* CanTransitionBatchImageJob.
CanTransition(from, to) ==
    \/ from \in Terminal \ {"output_deleted"} /\ to = "output_deleted"
    \/ from \notin Terminal /\ to = "failed"
    \/ <<from, to>> \in
         {<<"created", "uploading">>, <<"created", "submitted">>, <<"created", "cancelled">>,
          <<"uploading", "submitted">>, <<"uploading", "cancelled">>,
          <<"submitted", "running">>, <<"submitted", "indexing">>, <<"submitted", "cancelled">>,
          <<"running", "running">>, <<"running", "indexing">>, <<"running", "cancelled">>,
          <<"indexing", "settling">>, <<"settling", "completed">>}

\* named: provider_job_name is set.  stale: updated_at is older than the
\* recovery cutoff.  serr: last_error_code begins with SETTLEMENT_.  hidden:
\* user_deleted_at is set.  retry stops counting at MaxRetries.
Jobs == [status : Statuses, named : BOOLEAN, stale : BOOLEAN,
         retry : 0..MaxRetries, serr : BOOLEAN, hidden : BOOLEAN]

NoJob == [status |-> "none", named |-> FALSE, stale |-> FALSE, retry |-> 0,
          serr |-> FALSE, hidden |-> FALSE]

WithStatus(j, status) == [j EXCEPT !.status = status, !.stale = FALSE]

\* RecordBatchImageJobSubmitFailure, with markFailed and without: the status
\* is overwritten whatever it was.
SubmitFailed(j) == [WithStatus(j, "failed") EXCEPT !.serr = FALSE]
QueueFailed(j) == [j EXCEPT !.stale = FALSE, !.serr = FALSE]

\* MarkBatchImageJobUserDeleted.
UserDeleted(j) == [j EXCEPT !.hidden = (@ \/ j.status \in Terminal)]

\* SetBatchImageJobSettlementFailed.
SettlementFailed(j) ==
    [j EXCEPT !.retry = IF @ < MaxRetries THEN @ + 1 ELSE @, !.serr = TRUE, !.stale = FALSE]

\* The condition of ListStaleUnsubmitted... and of FailStaleUnsubmitted....
StaleUnsubmitted(j) == j.status \in Unsubmitted /\ ~j.named /\ j.stale

-----------------------------------------------------------------------------
(* Statements and their outcomes.                                          *)

Outcomes == {"ok", "err", "lost"}

Fault == faults < MaxFaults /\ faults' = faults + 1
Outcome(o) == IF o = "ok" THEN UNCHANGED faults ELSE Fault

\* TransitionBatchImageJobStatus, and whether it returns nil.
Transitioned(to, o) == o = "ok" /\ CanTransition(job.status, to)
Transition(to, o) ==
    /\ Outcome(o)
    /\ job' = IF o # "err" /\ CanTransition(job.status, to) THEN WithStatus(job, to) ELSE job

\* releaseBatchImageBalanceHold, and whether it returns nil.  The private
\* wiring has nothing to release.
Released(o) == private \/ (o = "ok" /\ ReleaseOK(wallet))
ReleaseHold(o) ==
    /\ private => o = "ok"
    /\ Outcome(o)
    /\ wallet' = IF private \/ o = "err" \/ ~ReleaseOK(wallet) THEN wallet ELSE Release(wallet)

Enqueue(o) ==
    /\ Outcome(o)
    /\ queue' = IF o # "err" THEN Enqueued(queue) ELSE queue

-----------------------------------------------------------------------------
(* Submit.                                                                 *)

SubmitStates == {"start", "reserve", "upload", "submit", "persist", "enqueue",
                 "release", "giveup", "fail", "failretry", "retry", "abort",
                 "done", "dead"}

\* CreateBatchImageJob.
Create ==
    /\ sub = "start"
    /\ job' = WithStatus(NoJob, "created")
    /\ sub' = IF private THEN "upload" ELSE "reserve"
    /\ UNCHANGED <<private, wallet, queue, lock, upstream, output, client, rec, worker, faults, ghosts>>

\* reserveBatchImageBalanceHold.  When it fails nothing is released.
ReserveHold ==
    /\ sub = "reserve"
    /\ \E o \in Outcomes :
         /\ Outcome(o)
         /\ wallet' = IF o # "err" /\ ReserveOK(wallet) THEN Reserve(wallet) ELSE wallet
         /\ sub' = IF o = "ok" /\ ReserveOK(wallet) THEN "upload" ELSE "fail"
         /\ abandoned' = (abandoned \/ o = "lost")
    /\ UNCHANGED <<private, job, queue, lock, upstream, output, client, rec, worker, orphan, strayed>>

\* createPendingItems and the transition to uploading.  A transition that the
\* status does not allow ends Submit once the hold is released; any other
\* failure also marks the job failed.
StartUpload ==
    /\ sub = "upload"
    /\ \E o \in Outcomes :
         /\ Transition("uploading", o)
         /\ sub' = IF Transitioned("uploading", o) THEN "submit"
                   ELSE IF o = "ok" THEN "giveup" ELSE "release"
    /\ UNCHANGED <<private, wallet, queue, lock, upstream, output, client, rec, worker, ghosts>>

\* TouchBatchImageJobSubmitting, from runSubmitHeartbeat.
SubmitHeartbeat ==
    /\ sub = "submit"
    /\ job.stale /\ job.status \in Unsubmitted
    /\ job' = [job EXCEPT !.stale = FALSE]
    /\ UNCHANGED <<private, wallet, queue, lock, upstream, output, sub, client, rec, worker, faults, ghosts>>

\* provider.Submit: the provider may refuse, and its acceptance may be lost.
ProviderSubmit ==
    /\ sub = "submit"
    /\ \/ upstream' = "live" /\ sub' = "persist" /\ UNCHANGED <<faults, orphan>>
       \/ sub' = "release" /\ UNCHANGED <<upstream, faults, orphan>>
       \/ Fault /\ upstream' = "live" /\ sub' = "release" /\ orphan' = TRUE
    /\ UNCHANGED <<private, job, wallet, queue, lock, output, client, rec, worker, abandoned, strayed>>

\* Mutant: UpdateBatchImageJobProviderSubmit does not check the status.
PersistSubmitUnchecked ==
    /\ sub = "persist"
    /\ job' = [WithStatus(job, "submitted") EXCEPT !.named = TRUE]
    /\ sub' = "enqueue"
    /\ UNCHANGED <<private, wallet, queue, lock, upstream, output, client, rec, worker, faults, ghosts>>

\* UpdateBatchImageJobProviderSubmit.
PersistSubmit ==
    /\ sub = "persist"
    /\ \E o \in Outcomes :
         /\ Outcome(o)
         /\ job' = IF o # "err" /\ CanTransition(job.status, "submitted")
                     THEN [WithStatus(job, "submitted") EXCEPT !.named = TRUE] ELSE job
         /\ sub' = IF Transitioned("submitted", o) THEN "enqueue" ELSE "abort"
    /\ UNCHANGED <<private, wallet, queue, lock, upstream, output, client, rec, worker, ghosts>>

\* The provider cancels a job it still runs.
ProviderCancelled == IF upstream = "live" THEN "cancelled" ELSE upstream

\* abortOrphanProviderJob: the cancellation is tried once.
AbortOrphan ==
    /\ sub = "abort"
    /\ \/ upstream' = ProviderCancelled /\ UNCHANGED <<faults, orphan>>
       \/ Fault /\ orphan' = TRUE /\ UNCHANGED upstream
    /\ sub' = "done"
    /\ UNCHANGED <<private, job, wallet, queue, lock, output, client, rec, worker, abandoned, strayed>>

\* The job is submitted: Enqueue, or QUEUE_FAILED is recorded.
SubmitEnqueue ==
    /\ sub = "enqueue"
    /\ \E o \in Outcomes :
         /\ Enqueue(o)
         /\ job' = IF o = "ok" THEN job ELSE QueueFailed(job)
    /\ sub' = "done"
    /\ UNCHANGED <<private, wallet, lock, upstream, output, client, rec, worker, ghosts>>

\* releaseFailedSubmitHold, up to the release.
SubmitRelease ==
    /\ sub \in {"release", "giveup"}
    /\ \E o \in Outcomes :
         /\ ReleaseHold(o)
         /\ sub' = IF ~Released(o) THEN "failretry"
                   ELSE IF sub = "release" THEN "fail" ELSE "done"
    /\ UNCHANGED <<private, job, queue, lock, upstream, output, client, rec, worker, ghosts>>

\* RecordBatchImageJobSubmitFailure, whose failure is ignored; without a hold
\* left to release hidePreUpstreamSubmitFailure follows, else enqueueBillingRetry.
RecordSubmitFailure ==
    /\ sub \in {"fail", "failretry"}
    /\ \E o \in {"ok", "err"} :
         /\ Outcome(o)
         /\ LET j == IF o = "ok" THEN SubmitFailed(job) ELSE job
            IN  job' = IF sub = "fail" THEN UserDeleted(j) ELSE j
    /\ sub' = IF sub = "fail" THEN "done" ELSE "retry"
    /\ UNCHANGED <<private, wallet, queue, lock, upstream, output, client, rec, worker, ghosts>>

\* enqueueBillingRetry, whose failure is logged.
SubmitRetry ==
    /\ sub = "retry"
    /\ \E o \in Outcomes :
         /\ Enqueue(o)
         /\ abandoned' = (abandoned \/ o = "err")
    /\ sub' = "done"
    /\ UNCHANGED <<private, job, wallet, lock, upstream, output, client, rec, worker, orphan, strayed>>

\* The process of Submit dies.
SubmitDies ==
    /\ sub \notin {"start", "done", "dead"}
    /\ Fault
    /\ orphan' = (orphan \/ sub \in {"persist", "abort"})
    /\ abandoned' = (abandoned \/ (Outstanding(wallet) /\ job.status \in Refunding))
    /\ sub' = "dead"
    /\ UNCHANGED <<private, job, wallet, queue, lock, upstream, output, client, rec, worker, strayed>>

-----------------------------------------------------------------------------
(* The client: Cancel, a resubmission with the same idempotency key,       *)
(* DeleteRecord and DeleteOutputs.                                         *)

ClientStates == {"idle", "transition", "provider", "release", "enqueue", "resubmit"}

\* Cancel reads the job and decides.
CancelReads ==
    /\ client = "idle"
    /\ job.status \notin {"none", "settling", "completed", "output_deleted"}
    /\ ~job.hidden
    /\ client' = IF job.status \in Refunding THEN "release"
                 ELSE IF job.named THEN "provider" ELSE "transition"
    /\ UNCHANGED <<private, job, wallet, queue, lock, upstream, output, sub, rec, worker, faults, ghosts>>

\* The provider's job is cancelled; the workers will find out.
CancelProvider ==
    /\ client = "provider"
    /\ \/ upstream' = ProviderCancelled /\ client' = "enqueue" /\ UNCHANGED faults
       \/ Fault /\ client' = "idle" /\ UNCHANGED upstream
    /\ UNCHANGED <<private, job, wallet, queue, lock, output, sub, rec, worker, ghosts>>

\* The job that had no provider job is cancelled in the row.
CancelTransition ==
    /\ client = "transition"
    /\ \E o \in Outcomes :
         /\ Transition("cancelled", o)
         /\ client' = IF Transitioned("cancelled", o) THEN "release" ELSE "idle"
         /\ abandoned' = (abandoned \/ o = "lost")
    /\ UNCHANGED <<private, wallet, queue, lock, upstream, output, sub, rec, worker, orphan, strayed>>

CancelRelease ==
    /\ client = "release"
    /\ \E o \in Outcomes :
         /\ ReleaseHold(o)
         /\ client' = IF Released(o) THEN "idle" ELSE "enqueue"
    /\ UNCHANGED <<private, job, queue, lock, upstream, output, sub, rec, worker, ghosts>>

\* The Enqueue that ends Cancel, after the provider's cancellation or after a
\* release that failed.
CancelEnqueue ==
    /\ client = "enqueue"
    /\ \E o \in Outcomes :
         /\ Enqueue(o)
         /\ abandoned' = (abandoned \/ o = "err")
    /\ client' = "idle"
    /\ UNCHANGED <<private, job, wallet, lock, upstream, output, sub, rec, worker, orphan, strayed>>

\* Submit with the key of a job that is submitted: it is enqueued again.
ResubmitReads ==
    /\ client = "idle"
    /\ job.status = "submitted"
    /\ client' = "resubmit"
    /\ UNCHANGED <<private, job, wallet, queue, lock, upstream, output, sub, rec, worker, faults, ghosts>>

ResubmitEnqueue ==
    /\ client = "resubmit"
    /\ \E o \in Outcomes :
         /\ Enqueue(o)
         /\ job' = IF o = "ok" THEN job ELSE QueueFailed(job)
    /\ client' = "idle"
    /\ UNCHANGED <<private, wallet, lock, upstream, output, sub, rec, worker, ghosts>>

ClientDies ==
    /\ client # "idle"
    /\ Fault
    /\ abandoned' = (abandoned \/ client \in {"release", "enqueue"})
    /\ client' = "idle"
    /\ UNCHANGED <<private, job, wallet, queue, lock, upstream, output, sub, rec, worker, orphan, strayed>>

\* DeleteRecord; and MarkBatchImageOutputDeleted, on the client's request or
\* when the outputs expire.
DeleteRecord ==
    /\ ~job.hidden /\ job.status \in Terminal
    /\ job' = UserDeleted(job)
    /\ UNCHANGED <<private, wallet, queue, lock, upstream, output, sub, client, rec, worker, faults, ghosts>>

DeleteOutputs ==
    /\ job.status = "completed"
    /\ job' = WithStatus(job, "output_deleted")
    /\ UNCHANGED <<private, wallet, queue, lock, upstream, output, sub, client, rec, worker, faults, ghosts>>

-----------------------------------------------------------------------------
(* ReleaseStaleUnsubmittedOnce.  It does nothing in the private wiring,    *)
(* which gives it no billing repository.                                   *)

RecoveryStates == {"idle", "fail", "release", "retry"}

\* Time passes without an update of an unsubmitted job.  While its submission
\* is under way only a stall of the process, or of its heartbeat, allows it.
Ages ==
    /\ job.status \in Unsubmitted /\ ~job.stale
    /\ rec = "idle"
    /\ IF sub \in {"done", "dead"} THEN UNCHANGED faults ELSE Fault
    /\ job' = [job EXCEPT !.stale = TRUE]
    /\ UNCHANGED <<private, wallet, queue, lock, upstream, output, sub, client, rec, worker, ghosts>>

ListStale ==
    /\ ~private
    /\ rec = "idle"
    /\ StaleUnsubmitted(job)
    /\ rec' = "fail"
    /\ UNCHANGED <<private, job, wallet, queue, lock, upstream, output, sub, client, worker, faults, ghosts>>

\* Mutant: the job that was listed is failed without a second look.
FailStaleUnchecked ==
    /\ rec = "fail"
    /\ job' = WithStatus(job, "failed")
    /\ rec' = "release"
    /\ UNCHANGED <<private, wallet, queue, lock, upstream, output, sub, client, worker, faults, ghosts>>

\* FailStaleUnsubmittedBatchImageJob: the condition is checked again.
FailStale ==
    /\ rec = "fail"
    /\ \E o \in Outcomes :
         /\ Outcome(o)
         /\ job' = IF o # "err" /\ StaleUnsubmitted(job) THEN WithStatus(job, "failed") ELSE job
         /\ rec' = IF o = "ok" /\ StaleUnsubmitted(job) THEN "release" ELSE "idle"
         /\ abandoned' = (abandoned \/ o = "lost")
    /\ UNCHANGED <<private, wallet, queue, lock, upstream, output, sub, client, worker, orphan, strayed>>

RecoveryRelease ==
    /\ rec = "release"
    /\ \E o \in Outcomes :
         /\ ReleaseHold(o)
         /\ rec' = IF Released(o) THEN "idle" ELSE "retry"
    /\ UNCHANGED <<private, job, queue, lock, upstream, output, sub, client, worker, ghosts>>

\* enqueueReleaseRetry.
RecoveryRetry ==
    /\ rec = "retry"
    /\ \E o \in Outcomes :
         /\ Enqueue(o)
         /\ abandoned' = (abandoned \/ o = "err")
    /\ rec' = "idle"
    /\ UNCHANGED <<private, job, wallet, lock, upstream, output, sub, client, worker, orphan, strayed>>

RecoveryDies ==
    /\ rec # "idle"
    /\ Fault
    /\ abandoned' = (abandoned \/ rec \in {"release", "retry"})
    /\ rec' = "idle"
    /\ UNCHANGED <<private, job, wallet, queue, lock, upstream, output, sub, client, worker, orphan, strayed>>

-----------------------------------------------------------------------------
(* The provider.                                                           *)

ProviderStates == {"none", "live", "succeeded", "failed", "cancelled"}

\* Cost of the output's images: none yet, within the hold, above it; or lines
\* that cannot be parsed.
OutputKinds == {"none", "within", "above", "bad"}

ProviderFinishes ==
    /\ upstream = "live"
    /\ \/ upstream' = "succeeded" /\ output' \in OutputKinds \ {"none"}
       \/ upstream' = "failed" /\ UNCHANGED output
    /\ UNCHANGED <<private, job, wallet, queue, lock, sub, client, rec, worker, faults, ghosts>>

-----------------------------------------------------------------------------
(* The workers: RunOnce, with BatchImagePipelineProcessor.Process,         *)
(* BatchImageProviderProcessor.Process and Settle.                         *)

\* The transitions a worker makes: where it stands before one, the status it
\* asks for, and where it goes on when the transition succeeds.
Target == [running |-> "running", indexing |-> "indexing", failing |-> "failed",
           cancelling |-> "cancelled", indexfail |-> "failed", settling |-> "settling",
           xfail |-> "failed"]
After == [running |-> "requeue", indexing |-> "index", failing |-> "release",
          cancelling |-> "release", indexfail |-> "release", settling |-> "requeue",
          xfail |-> "recheck"]

WorkerStates == {"idle", "lock", "read", "process", "poll", "index", "release",
                 "settle", "capture", "record", "mark", "xrelease", "recheck",
                 "ack", "requeue"} \cup DOMAIN Target

Goes(x, pc) == worker' = [worker EXCEPT ![x] = pc]

\* Reserve.
WorkerReserve(x) ==
    /\ worker[x] = "idle"
    /\ queue.ready > 0
    /\ queue' = Reserved(queue)
    /\ Goes(x, "lock")
    /\ UNCHANGED <<private, job, wallet, lock, upstream, output, sub, client, rec, faults, ghosts>>

\* TryAcquireJobLock.
WorkerLock(x) ==
    /\ worker[x] = "lock"
    /\ \E o \in {"ok", "err"} :
         /\ Outcome(o)
         /\ IF o = "ok" /\ lock = NoWorker
              THEN lock' = x /\ Goes(x, "read")
              ELSE UNCHANGED lock /\ Goes(x, "requeue")
    /\ UNCHANGED <<private, job, wallet, queue, upstream, output, sub, client, rec, ghosts>>

\* The pipeline reads the job, and hands it to settlement or to the provider
\* processor, which read it again.
PipelineReads(x) ==
    /\ worker[x] = "read"
    /\ Goes(x, IF job.status = "settling" THEN "settle" ELSE "process")
    /\ UNCHANGED <<private, job, wallet, queue, lock, upstream, output, sub, client, rec, faults, ghosts>>

\* Mutant: a terminal job is acknowledged before its hold is released.
ProcessorAcksFailed(x) ==
    /\ worker[x] = "process"
    /\ Goes(x, IF job.status \in Terminal \cup {"settling"} THEN "ack"
               ELSE IF ~job.named THEN "requeue"
               ELSE IF job.status = "indexing" THEN "index"
               ELSE "poll")
    /\ UNCHANGED <<private, job, wallet, queue, lock, upstream, output, sub, client, rec, faults, ghosts>>

ProcessorReads(x) ==
    /\ worker[x] = "process"
    /\ Goes(x, IF job.status \in Refunding THEN "release"
               ELSE IF job.status \in Terminal \cup {"settling"} THEN "ack"
               ELSE IF ~job.named THEN "requeue"
               ELSE IF job.status = "indexing" THEN "index"
               ELSE "poll")
    /\ UNCHANGED <<private, job, wallet, queue, lock, upstream, output, sub, client, rec, faults, ghosts>>

\* provider.Get; a live job is queued or runs.
WorkerPolls(x) ==
    /\ worker[x] = "poll"
    /\ \/ upstream = "live" /\ (Goes(x, "running") \/ Goes(x, "requeue"))
       \/ upstream = "succeeded" /\ Goes(x, "indexing")
       \/ upstream = "failed" /\ Goes(x, "failing")
       \/ upstream = "cancelled" /\ Goes(x, "cancelling")
    /\ UNCHANGED <<private, job, wallet, queue, lock, upstream, output, sub, client, rec, faults, ghosts>>

WorkerTransition(x) ==
    /\ worker[x] \in DOMAIN Target
    /\ \E o \in Outcomes :
         /\ Transition(Target[worker[x]], o)
         /\ Goes(x, IF Transitioned(Target[worker[x]], o) THEN After[worker[x]] ELSE "requeue")
    /\ strayed' = (strayed \/ (/\ worker[x] = "indexfail"
                                /\ job.status = "settling" /\ job'.status = "failed"))
    /\ UNCHANGED <<private, wallet, queue, lock, upstream, output, sub, client, rec, orphan, abandoned>>

\* Index: the provider's output, then ReplaceBatchImageItemsForJob, which asks
\* for the status indexing.  An error of the store is taken for one of the
\* output, and fails the job.
WorkerIndexes(x) ==
    /\ worker[x] = "index"
    /\ \/ Fault /\ Goes(x, "requeue")
       \/ Fault /\ Goes(x, "indexfail")
       \/ /\ Goes(x, IF output = "bad" THEN "indexfail"
                     ELSE IF job.status # "indexing" THEN "requeue" ELSE "settling")
          /\ UNCHANGED faults
    /\ UNCHANGED <<private, job, wallet, queue, lock, upstream, output, sub, client, rec, ghosts>>

\* releaseTerminalHold.
WorkerRelease(x) ==
    /\ worker[x] = "release"
    /\ \E o \in Outcomes :
         /\ ReleaseHold(o)
         /\ Goes(x, IF Released(o) THEN "ack" ELSE "requeue")
    /\ UNCHANGED <<private, job, queue, lock, upstream, output, sub, client, rec, ghosts>>

\* Settle, up to the charge: isBatchImageSettlementRetryExhausted first, then
\* the checks of the counts, the manifest and the cost.
SettleReads(x) ==
    /\ worker[x] = "settle"
    /\ Goes(x, IF job.status = "completed" THEN "ack"
               ELSE IF job.status # "settling" THEN "requeue"
               ELSE IF job.retry >= MaxRetries /\ job.serr THEN "xrelease"
               ELSE IF output = "above" /\ ~private THEN "record"
               ELSE "capture")
    /\ UNCHANGED <<private, job, wallet, queue, lock, upstream, output, sub, client, rec, faults, ghosts>>

\* Mutant: a capture that failed is taken for done.
WorkerCaptureUnchecked(x) ==
    /\ worker[x] = "capture"
    /\ \E o \in {"ok", "err"} :
         /\ Outcome(o)
         /\ wallet' = IF o = "err" THEN wallet
                      ELSE IF private THEN Apply(wallet)
                      ELSE IF CaptureOK(wallet) THEN Capture(wallet) ELSE wallet
    /\ Goes(x, "mark")
    /\ UNCHANGED <<private, job, queue, lock, upstream, output, sub, client, rec, ghosts>>

\* captureBatchImageBalanceHold, or applyPrivateOperationalUsage.
WorkerCapture(x) ==
    /\ worker[x] = "capture"
    /\ \E o \in Outcomes :
         /\ Outcome(o)
         /\ wallet' = IF o = "err" THEN wallet
                      ELSE IF private THEN Apply(wallet)
                      ELSE IF CaptureOK(wallet) THEN Capture(wallet) ELSE wallet
         /\ Goes(x, IF o = "ok" /\ (private \/ CaptureOK(wallet)) THEN "mark" ELSE "record")
    /\ UNCHANGED <<private, job, queue, lock, upstream, output, sub, client, rec, ghosts>>

\* recordSettlementFailure: the last retry goes straight to the release.
WorkerRecords(x) ==
    /\ worker[x] = "record"
    /\ \E o \in Outcomes :
         /\ Outcome(o)
         /\ job' = IF o = "err" THEN job ELSE SettlementFailed(job)
         /\ Goes(x, IF o = "ok" /\ job.retry + 1 >= MaxRetries THEN "xrelease"
                    ELSE IF output = "above" /\ ~private THEN "requeue" ELSE "recheck")
    /\ UNCHANGED <<private, wallet, queue, lock, upstream, output, sub, client, rec, ghosts>>

\* MarkBatchImageJobSettled: from settling only.
WorkerMarks(x) ==
    /\ worker[x] = "mark"
    /\ \E o \in Outcomes :
         /\ Outcome(o)
         /\ job' = IF o # "err" /\ job.status = "settling" THEN WithStatus(job, "completed") ELSE job
         /\ Goes(x, IF o = "ok" /\ job.status = "settling" THEN "ack" ELSE "requeue")
    /\ UNCHANGED <<private, wallet, queue, lock, upstream, output, sub, client, rec, ghosts>>

\* failExhaustedSettlement, up to the transition (xfail): a release that fails
\* is recorded as one more settlement failure.
ExhaustedRelease(x) ==
    /\ worker[x] = "xrelease"
    /\ \E o \in Outcomes :
         /\ ReleaseHold(o)
         /\ job' = IF Released(o) THEN job ELSE SettlementFailed(job)
         /\ Goes(x, IF Released(o) THEN "xfail" ELSE "recheck")
    /\ UNCHANGED <<private, queue, lock, upstream, output, sub, client, rec, ghosts>>

\* The pipeline reads the job again after a settlement that failed.
WorkerRechecks(x) ==
    /\ worker[x] = "recheck"
    /\ Goes(x, IF job.status \in Terminal THEN "ack" ELSE "requeue")
    /\ UNCHANGED <<private, job, wallet, queue, lock, upstream, output, sub, client, rec, faults, ghosts>>

\* A read or a call of the provider fails: the job is requeued.
WorkerReadFails(x) ==
    /\ worker[x] \in {"read", "process", "poll", "settle", "recheck"}
    /\ Fault
    /\ Goes(x, "requeue")
    /\ UNCHANGED <<private, job, wallet, queue, lock, upstream, output, sub, client, rec, ghosts>>

\* Ack or RequeueAfter, then the release of the lock.
WorkerEnds(x) ==
    /\ worker[x] \in {"ack", "requeue"}
    /\ \E o \in {"ok", "err"} :
         /\ Outcome(o)
         /\ queue' = IF o = "err" THEN queue
                     ELSE IF worker[x] = "ack" THEN Acked(queue) ELSE Requeued(queue)
    /\ lock' = IF lock = x THEN NoWorker ELSE lock
    /\ Goes(x, "idle")
    /\ UNCHANGED <<private, job, wallet, upstream, output, sub, client, rec, ghosts>>

WorkerDies(x) ==
    /\ worker[x] # "idle"
    /\ Fault
    /\ Goes(x, "idle")
    /\ UNCHANGED <<private, job, wallet, queue, lock, upstream, output, sub, client, rec, ghosts>>

-----------------------------------------------------------------------------
(* The loops and timers of the queue.                                      *)

\* RunDelayedMover.
MoveDueDelayed ==
    /\ queue.delayed
    /\ queue.ready < MaxReady
    /\ queue' = DelayedMoved(queue)
    /\ UNCHANGED <<private, job, wallet, lock, upstream, output, sub, client, rec, worker, faults, ghosts>>

AllIdle == \A x \in Workers : worker[x] = "idle"

\* RunStaleActiveRecovery.  runJobHeartbeat keeps the entry of a job fresh; it
\* becomes stale when nobody works on the job, or a worker stalls.
RecoverStaleActive ==
    /\ queue.active
    /\ queue.ready < MaxReady
    /\ IF AllIdle THEN UNCHANGED faults ELSE Fault
    /\ queue' = ActiveRecovered(queue)
    /\ UNCHANGED <<private, job, wallet, lock, upstream, output, sub, client, rec, worker, ghosts>>

\* The lock key reaches its TTL: its holder died, or stalls.
LockExpires ==
    /\ lock # NoWorker
    /\ IF worker[lock] = "idle" THEN UNCHANGED faults ELSE Fault
    /\ lock' = NoWorker
    /\ UNCHANGED <<private, job, wallet, queue, upstream, output, sub, client, rec, worker, ghosts>>

-----------------------------------------------------------------------------
Init ==
    /\ private \in BOOLEAN
    /\ job = NoJob
    /\ wallet = NewWallet
    /\ queue = EmptyQueue
    /\ lock = NoWorker
    /\ upstream = "none"
    /\ output = "none"
    /\ sub = "start"
    /\ client = "idle"
    /\ rec = "idle"
    /\ worker = [x \in Workers |-> "idle"]
    /\ faults = 0
    /\ orphan = FALSE
    /\ abandoned = FALSE
    /\ strayed = FALSE

Submitter ==
    \/ Create \/ ReserveHold \/ StartUpload \/ SubmitHeartbeat \/ ProviderSubmit
    \/ PersistSubmit \/ AbortOrphan \/ SubmitEnqueue \/ SubmitRelease
    \/ RecordSubmitFailure \/ SubmitRetry

Client ==
    \/ CancelReads \/ CancelProvider \/ CancelTransition \/ CancelRelease \/ CancelEnqueue
    \/ ResubmitReads \/ ResubmitEnqueue \/ DeleteRecord \/ DeleteOutputs

Recovery == ListStale \/ FailStale \/ RecoveryRelease \/ RecoveryRetry

Worker(x) ==
    \/ WorkerReserve(x) \/ WorkerLock(x) \/ PipelineReads(x) \/ ProcessorReads(x)
    \/ WorkerPolls(x) \/ WorkerTransition(x) \/ WorkerIndexes(x) \/ WorkerRelease(x)
    \/ SettleReads(x) \/ WorkerCapture(x) \/ WorkerRecords(x) \/ WorkerMarks(x)
    \/ ExhaustedRelease(x) \/ WorkerRechecks(x) \/ WorkerReadFails(x) \/ WorkerEnds(x)

Loops == MoveDueDelayed \/ RecoverStaleActive \/ LockExpires \/ Ages \/ ProviderFinishes

Crashes == SubmitDies \/ ClientDies \/ RecoveryDies \/ (\E x \in Workers : WorkerDies(x))

Next == Submitter \/ Client \/ Recovery \/ (\E x \in Workers : Worker(x)) \/ Loops \/ Crashes

Spec == Init /\ [][Next]_vars

(***************************************************************************)
(* Fairness: a handler, a sweep or a worker that is not killed goes on;    *)
(* the mover, the recovery loops and the expiry of keys come round; the    *)
(* provider finishes.  Nothing is assumed of the client's requests, and of *)
(* faults only that they are MaxFaults at most.                            *)
(***************************************************************************)
Fairness ==
    /\ WF_vars(Submitter)
    /\ WF_vars(client # "idle" /\ Client)
    /\ WF_vars(Recovery)
    /\ \A x \in Workers : WF_vars(Worker(x))
    /\ WF_vars(MoveDueDelayed)
    /\ WF_vars(AllIdle /\ RecoverStaleActive)
    /\ WF_vars(faults' = faults /\ LockExpires)
    /\ WF_vars(faults' = faults /\ Ages)
    /\ WF_vars(ProviderFinishes)

FairSpec == Spec /\ Fairness

-----------------------------------------------------------------------------
TypeOK ==
    /\ private \in BOOLEAN
    /\ job \in Jobs
    /\ wallet \in Wallets
    /\ queue \in Queues
    /\ lock \in Workers \cup {NoWorker}
    /\ upstream \in ProviderStates
    /\ output \in OutputKinds
    /\ sub \in SubmitStates
    /\ client \in ClientStates
    /\ rec \in RecoveryStates
    /\ worker \in [Workers -> WorkerStates]
    /\ faults \in 0..MaxFaults
    /\ orphan \in BOOLEAN /\ abandoned \in BOOLEAN /\ strayed \in BOOLEAN

Charged == "capture" \in wallet.claims

\* The settlement was given up, or the job was failed while it was under way.
Doubtful == job.retry = MaxRetries \/ strayed

(***************************************************************************)
(* A job is settled one way: what Settle charged, neither the release of a *)
(* failed or cancelled job (processor, Cancel, recovery, Submit) gives     *)
(* back, nor is the job left failed or cancelled, whichever of them race.  *)
(* It takes MaxRetries failed settlements, of which one was charged all    *)
(* the same, or a worker that lost its lock and failed the job while       *)
(* another settled it.                                                     *)
(***************************************************************************)
SettledOneWay ==
    Charged /\ (wallet.given \/ job.status \in Refunding)
        => Doubtful

\* A completed job was charged (captureBatchImageBalanceHold or
\* applyPrivateOperationalUsage before MarkBatchImageJobSettled), and an
\* operator's usage is counted once, however often settlement is retried.
CompletedIsCharged ==
    /\ job.status \in {"completed", "output_deleted"} => Charged
    /\ wallet.used <= 1

(***************************************************************************)
(* No batch runs upstream for a job that failed or was cancelled, and is   *)
(* refunded: FailStaleUnsubmittedBatchImageJob looks again, and Submit     *)
(* cancels what it cannot persist (abortOrphanProviderJob).  Left are a    *)
(* Submit that lost track of its provider job, and a Cancel that read the  *)
(* job before Submit persisted the provider's name.                        *)
(***************************************************************************)
NoOrphan ==
    job.status \in Refunding /\ upstream = "live"
        => \/ sub \in {"persist", "abort"}
           \/ orphan
           \/ job.status = "cancelled" /\ job.named

\* The same without the race of Cancel and Submit.
RefundStopsUpstream ==
    job.status \in Refunding /\ upstream = "live"
        => sub \in {"persist", "abort"} \/ orphan

\* A job whose inflight key would refuse it at Enqueue is in some structure of
\* the queue, whatever worker dies between two commands ("job would leave all
\* queue structures").
InFlightIsQueued == queue.inflight => Queued(queue)

\* Somebody is still about to release the hold of a failed or cancelled job.
Releasing ==
    \/ sub \in {"upload", "release", "giveup", "failretry", "retry"}
    \/ client \in {"release", "enqueue"}
    \/ rec \in {"release", "retry"}
    \/ Queued(queue)

(***************************************************************************)
(* The hold of a failed or cancelled job is given back, or somebody is     *)
(* still about to: whoever fails the job releases it, or enqueues it for a *)
(* worker that does.  Left are the faults that cut this off (abandoned), a *)
(* hold reserved after the release of the job was claimed, and a job that  *)
(* a worker failed while another settled it: the latter acknowledges it,   *)
(* and nobody takes over from the former if it dies.                       *)
(***************************************************************************)
HoldPursued ==
    Outstanding(wallet) /\ job.status \in Refunding
        => Releasing \/ "release" \in wallet.claims \/ abandoned \/ strayed

\* The same without the reservation that comes after the release.
NoHoldLeaks ==
    Outstanding(wallet) /\ job.status \in Refunding => Releasing \/ abandoned

Refundable == Outstanding(wallet) /\ "release" \notin wallet.claims

\* A worker is about to acknowledge a job that is to be settled: it read the
\* job before another worker moved it to settling, which the provider
\* processor takes for done (isBatchImageProcessorDoneStatus).
Dropping == job.status = "settling" /\ \E x \in Workers : worker[x] = "ack"

(***************************************************************************)
(* A hold ends: once the job is in the queue its hold is captured or       *)
(* released, whichever worker dies, loses its lock and its entry to        *)
(* another while it stalls, or has a statement fail; and so is that of a   *)
(* job whose Submit died before it reached the provider, by billing        *)
(* recovery.  Left are the faults that cut a release off, and the          *)
(* acknowledgement of a job under settlement by a worker that stalled:     *)
(* that job stays in settling, in no queue, and its hold stays frozen.     *)
(***************************************************************************)
HoldEnds ==
    Refundable /\ (Queued(queue) \/ (sub \in {"done", "dead"} /\ job.status \in Unsubmitted))
        ~> ~Refundable \/ abandoned \/ Dropping

\* What the request IDs say of the hold.
HoldState ==
    IF "hold" \notin wallet.claims THEN "none"
    ELSE IF wallet.given /\ Charged THEN "both"
    ELSE IF wallet.given THEN "released"
    ELSE IF Charged THEN "captured"
    ELSE "held"

Ledger == INSTANCE HoldLedger WITH
    balance <- wallet.balance,
    frozen <- wallet.frozen,
    hold <- HoldState,
    doubtful <- Doubtful

\* The statements of Submit, Cancel, recovery and the workers together
\* implement the ledger of holds: one reservation, then one capture or one
\* release, and both only for a job in doubt.
LedgerSpec == Ledger!Spec
=============================================================================
