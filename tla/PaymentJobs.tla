----------------------------- MODULE PaymentJobs -----------------------------
(***************************************************************************)
(* The payment jobs of automation.service.ts: the owner queues the         *)
(* invoices of a batch, workers lock their jobs and charge the pass, and   *)
(* the reconciliation worker takes jobs back from workers that seem to be  *)
(* dead.  Invoices, jobs and the batch are separate documents, loaded,     *)
(* changed and saved without versions: a save writes the fields its holder *)
(* changed, whatever has happened to the document since.  A charge is what *)
(* ChargeSession promises for one idempotency key.                         *)
(***************************************************************************)
EXTENDS Naturals, FiniteSets

CONSTANTS
  JobInvoice,   \* the invoices of one batch, all of one pass
  Worker,       \* payment workers
  MaxAttempts,  \* maxAttempts of a job
  MaxQueues     \* bound on the owner's queue requests

ASSUME JobsAssumption ==
  /\ IsFiniteSet(JobInvoice) /\ JobInvoice # {}
  /\ MaxAttempts \in Nat \ {0}
  /\ MaxQueues \in Nat

VARIABLES
  invoice,  \* the status of each Invoice document
  job,      \* the PaymentJob document of each invoice
  batch,    \* the status of the PaymentBatch document
  worker,   \* what each worker is doing, on which copies
  owner,    \* the owner's queue request
  sweep,    \* what the reconciliation worker is doing with each job
  charged,  \* the invoices that were debited, once each: the key is the job's
  queues    \* queue requests so far

documents == <<invoice, job, batch>>
jobsVars == <<documents, worker, owner, sweep, charged, queues>>

\* No operation cancels an invoice, so "cancelled" is left out.
InvoiceStatus == {"draft", "queued", "processing", "paid", "failed"}
\* Of the batch's statuses only "completed" decides anything; "open" stands for
\* draft, queued, processing, partial and failed.
BatchStatus == {"open", "completed"}
Unlocked == {"queued", "retrying"}
Locked == {"locked", "processing"}
Finished == {"succeeded", "failed", "cancelled"}
JobStatus == {"none"} \cup Unlocked \cup Locked \cup Finished

JobRecord == [status: JobStatus, attempts: Nat]

\* last: the job's copy has used up its attempts; saw: the status of the
\* invoice's copy; then: where the worker goes on after a roll-up, which takes
\* the batch from one status to another.
WorkerRecord ==
  [at: {"idle", "start", "read", "already", "pay", "charge", "paid", "succeed",
        "failing", "giveUp", "cancelJobs", "failInvoices", "cancelBatchJobs",
        "failBatchInvoices", "rollup", "rolled"},
   inv: JobInvoice, last: BOOLEAN, saw: InvoiceStatus, failure: {"retry", "fatal"},
   then: {"idle", "charge", "cancelBatchJobs"}, from: BatchStatus, to: BatchStatus]

\* todo: the invoices still to be queued; saw: the statuses they were read with;
\* then: where the request goes on after a roll-up.
OwnerRecord ==
  [at: {"idle", "mark", "next", "reset", "save", "rollup", "rolled"},
   todo: SUBSET JobInvoice, inv: JobInvoice, saw: [JobInvoice -> InvoiceStatus],
   job: JobStatus, then: {"idle", "next"}, from: BatchStatus, to: BatchStatus]

\* failed: the attempt budget of the job that was found is exhausted.
SweepRecord == [at: {"idle", "found", "saved", "read"}, failed: BOOLEAN]

AnyInvoice == CHOOSE i \in JobInvoice : TRUE
IdleWorker ==
  [at |-> "idle", inv |-> AnyInvoice, last |-> FALSE, saw |-> "draft",
   failure |-> "retry", then |-> "idle", from |-> "open", to |-> "open"]
IdleOwner ==
  [at |-> "idle", todo |-> {}, inv |-> AnyInvoice, saw |-> [i \in JobInvoice |-> "draft"],
   job |-> "none", then |-> "idle", from |-> "open", to |-> "open"]
IdleSweep == [at |-> "idle", failed |-> FALSE]

JobsInit ==
  /\ invoice = [i \in JobInvoice |-> "draft"]
  /\ job = [i \in JobInvoice |-> [status |-> "none", attempts |-> 0]]
  /\ batch = "open"
  /\ worker = [w \in Worker |-> IdleWorker]
  /\ owner = IdleOwner
  /\ sweep = [i \in JobInvoice |-> IdleSweep]
  /\ charged = {}
  /\ queues = 0
-----------------------------------------------------------------------------
\* Mutant of Rollup: the batch is completed once nothing is waiting.
RollupNothingWaiting ==
  IF \A i \in JobInvoice : invoice[i] \in {"paid", "failed"} THEN "completed" ELSE "open"

\* refreshPaymentBatchRollup: what the statuses of the invoices say of the batch.
Rollup == IF \A i \in JobInvoice : invoice[i] = "paid" THEN "completed" ELSE "open"

\* Saving a loaded document writes the status if its holder changed it; one
\* open status may or may not be changed into another.
SaveBatch(from, to) ==
  batch' \in CASE from # to -> {to}
               [] from = to /\ to = "open" -> {batch, to}
               [] OTHER -> {batch}
SaveInvoice(i, saw, status) ==
  invoice' = IF saw = status THEN invoice ELSE [invoice EXCEPT ![i] = status]

\* A worker goes on with its copies, with nothing but its job, or with neither.
Move(w, at) == worker' = [worker EXCEPT ![w].at = at]
MoveWithJob(w, at) ==
  worker' = [worker EXCEPT ![w] = [IdleWorker EXCEPT !.at = at, !.inv = worker[w].inv]]
MoveAlone(w, at) == worker' = [worker EXCEPT ![w] = [IdleWorker EXCEPT !.at = at]]
RollUpThen(w, then) ==
  worker' = [worker EXCEPT ![w] = [IdleWorker EXCEPT !.at = "rollup", !.then = then]]

RollupRead(w) ==
  /\ worker[w].at = "rollup"
  /\ worker' = [worker EXCEPT ![w].at = "rolled", ![w].from = batch, ![w].to = Rollup]
  /\ UNCHANGED <<documents, owner, sweep, charged, queues>>

RollupSave(w) ==
  /\ worker[w].at = "rolled"
  /\ SaveBatch(worker[w].from, worker[w].to)
  /\ worker' = [worker EXCEPT ![w] =
       IF @.then = "idle" THEN IdleWorker
       ELSE [@ EXCEPT !.at = worker[w].then, !.then = "idle", !.from = "open", !.to = "open"]]
  /\ UNCHANGED <<invoice, job, owner, sweep, charged, queues>>
-----------------------------------------------------------------------------
\* A job whose runAfter has come is locked; how long its backoff lasts is left
\* open.
LockNextPaymentJob(w, i) ==
  /\ worker[w].at = "idle"
  /\ job[i].status \in Unlocked
  /\ job' = [job EXCEPT ![i].status = "locked", ![i].attempts = @ + 1]
  /\ worker' = [worker EXCEPT ![w].at = "start", ![w].inv = i,
                              ![w].last = job[i].attempts + 1 >= MaxAttempts]
  /\ UNCHANGED <<invoice, batch, owner, sweep, charged, queues>>

StartJob(w) ==
  /\ worker[w].at = "start"
  /\ job' = [job EXCEPT ![worker[w].inv].status = "processing"]
  /\ Move(w, "read")
  /\ UNCHANGED <<invoice, batch, owner, sweep, charged, queues>>

\* Mutant of ReadInvoice: an invoice another attempt is paying counts as paid.
ReadInvoiceAsSettled(w) ==
  LET i == worker[w].inv
  IN /\ worker[w].at = "read"
     /\ worker' = [worker EXCEPT ![w].saw = invoice[i],
                     ![w].at = IF invoice[i] \in {"paid", "processing"} THEN "already" ELSE "pay"]
     /\ UNCHANGED <<documents, owner, sweep, charged, queues>>

ReadInvoice(w) ==
  LET i == worker[w].inv
  IN /\ worker[w].at = "read"
     /\ worker' = [worker EXCEPT ![w].saw = invoice[i],
                                 ![w].at = IF invoice[i] = "paid" THEN "already" ELSE "pay"]
     /\ UNCHANGED <<documents, owner, sweep, charged, queues>>

\* The invoice was paid by an earlier attempt.
AlreadyPaid(w) ==
  /\ worker[w].at = "already"
  /\ job' = [job EXCEPT ![worker[w].inv].status = "succeeded"]
  /\ worker' = [worker EXCEPT ![w] = IdleWorker]
  /\ UNCHANGED <<invoice, batch, owner, sweep, charged, queues>>

BeginPaying(w) ==
  /\ worker[w].at = "pay"
  /\ SaveInvoice(worker[w].inv, worker[w].saw, "processing")
  /\ worker' = [worker EXCEPT ![w].at = "rollup", ![w].then = "charge",
                              ![w].saw = "processing"]
  /\ UNCHANGED <<job, batch, owner, sweep, charged, queues>>

\* The app, the recipient or the payment request is missing.
PreparationFails(w) ==
  /\ worker[w].at = "pay"
  /\ \E f \in {"retry", "fatal"} :
       worker' = [worker EXCEPT ![w].at = "failing", ![w].failure = f]
  /\ UNCHANGED <<documents, owner, sweep, charged, queues>>

\* chargeSession: a debit under the key, or the answer of an earlier one.
ChargeSucceeds(w) ==
  /\ worker[w].at = "charge"
  /\ charged' = charged \cup {worker[w].inv}
  /\ Move(w, "paid")
  /\ UNCHANGED <<documents, owner, sweep, queues>>

\* It throws: before or after the debit, or because another caller holds the
\* attempt.  The fatal errors are thrown before anything is reserved.
ChargeThrows(w) ==
  /\ worker[w].at = "charge"
  /\ \E f \in {"retry", "fatal"} :
       worker' = [worker EXCEPT ![w].at = "failing", ![w].failure = f]
  /\ \/ UNCHANGED charged
     \/ /\ worker'[w].failure = "retry"
        /\ charged' = charged \cup {worker[w].inv}
  /\ UNCHANGED <<documents, owner, sweep, queues>>

SavePaid(w) ==
  /\ worker[w].at = "paid"
  /\ SaveInvoice(worker[w].inv, worker[w].saw, "paid")
  /\ MoveWithJob(w, "succeed")
  /\ UNCHANGED <<job, batch, owner, sweep, charged, queues>>

SucceedJob(w) ==
  /\ worker[w].at = "succeed"
  /\ job' = [job EXCEPT ![worker[w].inv].status = "succeeded"]
  /\ RollUpThen(w, "idle")
  /\ UNCHANGED <<invoice, batch, owner, sweep, charged, queues>>

SaveFailed(w) ==
  /\ worker[w].at = "failing"
  /\ SaveInvoice(worker[w].inv, worker[w].saw, "failed")
  /\ Move(w, "giveUp")
  /\ UNCHANGED <<job, batch, owner, sweep, charged, queues>>

\* failJob decides on the attempts of the worker's copy.
FailJob(w) ==
  LET fatal == worker[w].failure = "fatal"
      canRetry == ~worker[w].last /\ ~fatal
  IN /\ worker[w].at = "giveUp"
     /\ job' = [job EXCEPT ![worker[w].inv].status = IF canRetry THEN "retrying" ELSE "failed"]
     /\ IF fatal THEN MoveAlone(w, "cancelJobs") ELSE RollUpThen(w, "idle")
     /\ UNCHANGED <<invoice, batch, owner, sweep, charged, queues>>

\* The two updateMany of a cancellation: jobs first, invoices later.
CancelWhere(statuses) ==
  job' = [i \in JobInvoice |-> IF job[i].status \in statuses
                            THEN [job[i] EXCEPT !.status = "cancelled"] ELSE job[i]]
FailWhere(statuses) ==
  invoice' = [i \in JobInvoice |-> IF invoice[i] \in statuses THEN "failed" ELSE invoice[i]]

\* cancelSessionAutomationAfterFatalFailure.
CancelSessionJobs(w) ==
  /\ worker[w].at = "cancelJobs"
  /\ CancelWhere(Unlocked \cup {"locked"})
  /\ Move(w, "failInvoices")
  /\ UNCHANGED <<invoice, batch, owner, sweep, charged, queues>>

FailSessionInvoices(w) ==
  /\ worker[w].at = "failInvoices"
  /\ FailWhere({"draft", "queued"})
  /\ RollUpThen(w, "cancelBatchJobs")
  /\ UNCHANGED <<job, batch, owner, sweep, charged, queues>>

\* cancelBatchAfterFatalFailure reaches the jobs that are being processed too.
CancelBatchJobs(w) ==
  /\ worker[w].at = "cancelBatchJobs"
  /\ CancelWhere(Unlocked \cup Locked)
  /\ Move(w, "failBatchInvoices")
  /\ UNCHANGED <<invoice, batch, owner, sweep, charged, queues>>

FailBatchInvoices(w) ==
  /\ worker[w].at = "failBatchInvoices"
  /\ FailWhere({"draft", "queued", "processing"})
  /\ RollUpThen(w, "idle")
  /\ UNCHANGED <<job, batch, owner, sweep, charged, queues>>

CrashWorker(w) ==
  /\ worker[w].at # "idle"
  /\ worker' = [worker EXCEPT ![w] = IdleWorker]
  /\ UNCHANGED <<documents, owner, sweep, charged, queues>>
-----------------------------------------------------------------------------
\* queueInvoice loads one invoice, queueInvoiceBatch the batch and all of them.
QueueInvoice(i) ==
  /\ owner.at = "idle"
  /\ queues < MaxQueues
  /\ invoice[i] # "paid"
  /\ queues' = queues + 1
  /\ owner' = [IdleOwner EXCEPT !.at = "next", !.todo = {i}, !.saw = invoice]
  /\ UNCHANGED <<documents, worker, sweep, charged>>

QueueBatch ==
  /\ owner.at = "idle"
  /\ queues < MaxQueues
  /\ batch # "completed"
  /\ queues' = queues + 1
  /\ owner' = [IdleOwner EXCEPT !.at = "mark", !.saw = invoice, !.from = batch,
                                !.then = "next",
                                !.todo = {i \in JobInvoice : invoice[i] # "paid"}]
  /\ UNCHANGED <<documents, worker, sweep, charged>>

MarkBatchQueued ==
  /\ owner.at = "mark"
  /\ SaveBatch(owner.from, "open")
  /\ owner' = [owner EXCEPT !.at = "next", !.from = "open"]
  /\ UNCHANGED <<invoice, job, worker, sweep, charged, queues>>

\* createOrResetPaymentJob for the next invoice: the job is created, or read.
FindOrCreateJob(i) ==
  /\ owner.at = "next"
  /\ i \in owner.todo
  /\ job' = IF job[i].status = "none" THEN [job EXCEPT ![i].status = "queued"] ELSE job
  /\ owner' = [owner EXCEPT !.inv = i, !.job = job'[i].status,
                 !.at = IF job'[i].status \in {"failed", "cancelled"} THEN "reset" ELSE "save"]
  /\ UNCHANGED <<invoice, batch, worker, sweep, charged, queues>>

ResetJob ==
  /\ owner.at = "reset"
  /\ job' = [job EXCEPT ![owner.inv] = [status |-> "queued", attempts |-> 0]]
  /\ owner' = [owner EXCEPT !.at = "save", !.job = "queued"]
  /\ UNCHANGED <<invoice, batch, worker, sweep, charged, queues>>

SaveQueued ==
  /\ owner.at = "save"
  /\ SaveInvoice(owner.inv, owner.saw[owner.inv],
                 IF owner.job \in Locked THEN "processing" ELSE "queued")
  /\ owner' = [owner EXCEPT !.at = "rollup", !.todo = @ \ {owner.inv}, !.job = "none",
                            !.saw[owner.inv] = "draft"]
  /\ UNCHANGED <<job, batch, worker, sweep, charged, queues>>

\* The invoice cannot be queued, or the batch's last roll-up is due.
QueueEnds ==
  /\ owner.at = "next"
  /\ owner' = IF owner.todo # {} THEN IdleOwner
              ELSE [owner EXCEPT !.at = "rollup", !.then = "idle"]
  /\ UNCHANGED <<documents, worker, sweep, charged, queues>>

OwnerRollupRead ==
  /\ owner.at = "rollup"
  /\ owner' = [owner EXCEPT !.at = "rolled", !.from = batch, !.to = Rollup]
  /\ UNCHANGED <<documents, worker, sweep, charged, queues>>

OwnerRollupSave ==
  /\ owner.at = "rolled"
  /\ SaveBatch(owner.from, owner.to)
  /\ owner' = IF owner.then = "idle" THEN IdleOwner
              ELSE [owner EXCEPT !.at = "next", !.from = "open", !.to = "open"]
  /\ UNCHANGED <<invoice, job, worker, sweep, charged, queues>>
-----------------------------------------------------------------------------
\* Mutant of FindStaleJob: a job whose worker died before it started is missed.
FindStaleProcessing(i) ==
  /\ sweep[i].at = "idle"
  /\ job[i].status = "processing"
  /\ sweep' = [sweep EXCEPT ![i] = [at |-> "found", failed |-> job[i].attempts >= MaxAttempts]]
  /\ UNCHANGED <<documents, worker, owner, charged, queues>>

\* requeueStalePaymentJobs reads the jobs whose lockedAt or startedAt is old,
\* whether their workers are dead or slow; a job that is locked may be that old
\* at any time (startedAt of an earlier attempt counts).
FindStaleJob(i) ==
  /\ sweep[i].at = "idle"
  /\ job[i].status \in Locked
  /\ sweep' = [sweep EXCEPT ![i] = [at |-> "found", failed |-> job[i].attempts >= MaxAttempts]]
  /\ UNCHANGED <<documents, worker, owner, charged, queues>>

RequeueStaleJob(i) ==
  /\ sweep[i].at = "found"
  /\ job' = [job EXCEPT ![i].status = IF sweep[i].failed THEN "failed" ELSE "retrying"]
  /\ sweep' = [sweep EXCEPT ![i].at = "saved"]
  /\ UNCHANGED <<invoice, batch, worker, owner, charged, queues>>

ReadStaleInvoice(i) ==
  /\ sweep[i].at = "saved"
  /\ sweep' = [sweep EXCEPT ![i] = IF invoice[i] = "processing" THEN [@ EXCEPT !.at = "read"]
                                                                ELSE IdleSweep]
  /\ UNCHANGED <<documents, worker, owner, charged, queues>>

\* Mutant of RequeueStaleInvoice: the invoice gets the status of the job.
RequeueStaleInvoiceAsJob(i) ==
  /\ sweep[i].at = "read"
  /\ invoice' = [invoice EXCEPT ![i] = IF sweep[i].failed THEN "failed" ELSE "retrying"]
  /\ sweep' = [sweep EXCEPT ![i] = IdleSweep]
  /\ UNCHANGED <<job, batch, worker, owner, charged, queues>>

RequeueStaleInvoice(i) ==
  /\ sweep[i].at = "read"
  /\ invoice' = [invoice EXCEPT ![i] = IF sweep[i].failed THEN "failed" ELSE "queued"]
  /\ sweep' = [sweep EXCEPT ![i] = IdleSweep]
  /\ UNCHANGED <<job, batch, worker, owner, charged, queues>>
-----------------------------------------------------------------------------
WorkerStep(w) ==
  \/ StartJob(w) \/ ReadInvoice(w) \/ AlreadyPaid(w)
  \/ BeginPaying(w) \/ PreparationFails(w)
  \/ ChargeSucceeds(w) \/ ChargeThrows(w)
  \/ SavePaid(w) \/ SucceedJob(w)
  \/ SaveFailed(w) \/ FailJob(w)
  \/ CancelSessionJobs(w) \/ FailSessionInvoices(w)
  \/ CancelBatchJobs(w) \/ FailBatchInvoices(w)
  \/ RollupRead(w) \/ RollupSave(w)

OwnerStep ==
  \/ MarkBatchQueued
  \/ \E i \in JobInvoice : FindOrCreateJob(i)
  \/ ResetJob \/ SaveQueued \/ QueueEnds
  \/ OwnerRollupRead \/ OwnerRollupSave

SweepStep(i) ==
  FindStaleJob(i) \/ RequeueStaleJob(i) \/ ReadStaleInvoice(i) \/ RequeueStaleInvoice(i)

JobsNext ==
  \/ \E w \in Worker, i \in JobInvoice : LockNextPaymentJob(w, i)
  \/ \E w \in Worker : WorkerStep(w) \/ CrashWorker(w)
  \/ \E i \in JobInvoice : QueueInvoice(i)
  \/ QueueBatch \/ OwnerStep
  \/ \E i \in JobInvoice : SweepStep(i)

JobsSpec == JobsInit /\ [][JobsNext]_jobsVars

\* Workers and the reconciliation worker run in loops under supervision, the
\* oldest runAfter first; a locked job becomes old; a running request goes on.
JobsFairness ==
  /\ \A w \in Worker : WF_jobsVars(WorkerStep(w))
  /\ \A i \in JobInvoice : SF_jobsVars(\E w \in Worker : LockNextPaymentJob(w, i))
  /\ WF_jobsVars(OwnerStep)
  /\ \A i \in JobInvoice : WF_jobsVars(SweepStep(i))
-----------------------------------------------------------------------------
\* The documents hold statuses of their schemas, and every worker, request and
\* sweep is at a step of its handler.
JobsTypeOK ==
  /\ invoice \in [JobInvoice -> InvoiceStatus]
  /\ job \in [JobInvoice -> JobRecord]
  /\ batch \in BatchStatus
  /\ worker \in [Worker -> WorkerRecord]
  /\ owner \in OwnerRecord
  /\ sweep \in [JobInvoice -> SweepRecord]
  /\ charged \subseteq JobInvoice
  /\ queues \in Nat

\* Whatever copies are saved in whatever order, an invoice that says paid and a
\* job that says succeeded were charged.
SuccessIsCharged ==
  \A i \in JobInvoice : invoice[i] = "paid" \/ job[i].status = "succeeded" => i \in charged

\* However late a roll-up is saved, a batch that says completed was charged for
\* every one of its invoices.
CompletedIsCharged == batch = "completed" => charged = JobInvoice

\* No crash, slow worker or lost race leaves a job locked or retrying for ever.
JobsFinish ==
  \A i \in JobInvoice : job[i].status \in Unlocked \cup Locked ~> job[i].status \in Finished

\* What says paid, succeeded or completed was charged, whoever saved last.
JobsAreCharged == SuccessIsCharged /\ CompletedIsCharged
=============================================================================
