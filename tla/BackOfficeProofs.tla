-------------------------- MODULE BackOfficeProofs --------------------------
(***************************************************************************)
(* Payment jobs, scheduled payouts and claim links, each for any number of *)
(* workers, requests, invoices, recipients and cycles.                     *)
(*                                                                         *)
(* Jobs: a worker that is about to write paid, succeeded or completed has  *)
(* seen the charge (WorkerHonest).  Payouts: every success of a later      *)
(* cycle comes after all of the first cycle's (ChargeFacts), and a payout  *)
(* worker alone works from a copy that has every settlement (SettleFacts,  *)
(* BridgeFacts).  Claims: a link in hand is a link, and only the first can *)
(* be an older pass's (ClerkFacts, LinkFacts).                             *)
(***************************************************************************)
EXTENDS MCBackOffice, FiniteSetTheorems, TLAPS

-----------------------------------------------------------------------------
(* Payment jobs of a batch.                                                *)
\* What a worker is about to write as paid, succeeded or completed is charged.
WorkerHonest(w) ==
  /\ worker[w].at \in {"already", "paid", "succeed"} => worker[w].inv \in charged
  /\ worker[w].to = "completed" => charged = JobInvoice

JobsInv ==
  /\ JobsTypeOK
  /\ JobsAreCharged
  /\ \A w \in Worker : WorkerHonest(w)
  /\ owner.to = "completed" => charged = JobInvoice

\* The records of idle processes are well formed.
LEMMA IdleTyped ==
  /\ IdleWorker \in WorkerRecord /\ IdleWorker.to = "open" /\ IdleWorker.at = "idle"
  /\ IdleOwner \in OwnerRecord /\ IdleOwner.to = "open"
  /\ IdleSweep \in SweepRecord
<1>1. AnyInvoice \in JobInvoice
  BY JobsAssumption DEF AnyInvoice
<1> QED BY <1>1 DEF IdleWorker, WorkerRecord, IdleOwner, OwnerRecord, IdleSweep, SweepRecord,
        InvoiceStatus, BatchStatus, JobStatus

\* Nothing is queued, paid or charged at the start.
LEMMA JobsInitial == JobsInit => JobsInv
BY IdleTyped DEF JobsInit, JobsInv, JobsTypeOK, InvoiceStatus, BatchStatus, JobStatus, JobRecord,
  JobsAreCharged, SuccessIsCharged, CompletedIsCharged, WorkerHonest

\* A roll-up finds a batch completed only if all its invoices are charged.
LEMMA RollupHonest ==
  ASSUME JobsInv
  PROVE  Rollup \in BatchStatus /\ (Rollup = "completed" => charged = JobInvoice)
BY DEF Rollup, BatchStatus, JobsInv, JobsTypeOK, JobsAreCharged, SuccessIsCharged

WorkerAt ==
  {"idle", "start", "read", "already", "pay", "charge", "paid", "succeed", "failing", "giveUp",
   "cancelJobs", "failInvoices", "cancelBatchJobs", "failBatchInvoices", "rollup", "rolled"}

\* A step of worker w that leaves the other processes alone keeps the invariant
\* if its own record and the documents it writes are typed and honest.
LEMMA WorkerActs ==
  ASSUME JobsInv, NEW w \in Worker, NEW r \in WorkerRecord,
         worker' = [worker EXCEPT ![w] = r],
         charged \subseteq charged', charged' \subseteq JobInvoice,
         r.at \in {"already", "paid", "succeed"} => r.inv \in charged',
         r.to = "completed" => charged' = JobInvoice,
         UNCHANGED <<owner, sweep, queues>>,
         invoice' \in [JobInvoice -> InvoiceStatus],
         job' \in [JobInvoice -> JobRecord],
         batch' \in BatchStatus,
         \A i \in JobInvoice : /\ invoice'[i] = "paid" => i \in charged'
                               /\ job'[i].status = "succeeded" => i \in charged',
         batch' = "completed" => charged' = JobInvoice
  PROVE  JobsInv'
<1>1. JobsTypeOK'
  BY DEF JobsInv, JobsTypeOK
<1>2. SuccessIsCharged' /\ CompletedIsCharged'
  BY DEF SuccessIsCharged, CompletedIsCharged
<1>3. ASSUME NEW v \in Worker PROVE WorkerHonest(v)'
  BY DEF JobsInv, JobsTypeOK, WorkerHonest
<1>4. owner'.to = "completed" => charged' = JobInvoice
  BY DEF JobsInv, JobsTypeOK
<1> QED BY <1>1, <1>2, <1>3, <1>4 DEF JobsInv, JobsAreCharged

\* As before, of a worker that writes no document and charges nothing.
LEMMA WorkerMoves ==
  ASSUME JobsInv, NEW w \in Worker, NEW r \in WorkerRecord,
         worker' = [worker EXCEPT ![w] = r],
         r.at \in {"already", "paid", "succeed"} => r.inv \in charged,
         r.to = "completed" => charged = JobInvoice,
         UNCHANGED <<documents, owner, sweep, charged, queues>>
  PROVE  JobsInv'
BY WorkerActs
  DEF JobsInv, JobsTypeOK, JobsAreCharged, SuccessIsCharged, CompletedIsCharged, documents

\* Moving a worker on replaces the place it is at.
LEMMA MoveTyped ==
  ASSUME NEW x \in WorkerRecord, NEW at \in WorkerAt
  PROVE  LET r == [x EXCEPT !.at = at]
         IN /\ r \in WorkerRecord /\ r.at = at /\ r.inv = x.inv /\ r.to = x.to
            /\ r.then = x.then /\ r.last = x.last
BY DEF WorkerRecord, WorkerAt

\* A new status of a job leaves the other jobs alone.
LEMMA JobWritten ==
  ASSUME job \in [JobInvoice -> JobRecord], NEW i \in JobInvoice, NEW s \in JobStatus,
         job' = [job EXCEPT ![i].status = s]
  PROVE  /\ job' \in [JobInvoice -> JobRecord]
         /\ \A j \in JobInvoice : job'[j].status = IF j = i THEN s ELSE job[j].status
<1>1. [job[i] EXCEPT !.status = s] \in JobRecord /\ [job[i] EXCEPT !.status = s].status = s
  BY DEF JobRecord
<1> QED BY <1>1

\* Cancelling jobs makes none of them a success.
LEMMA JobsCancelled ==
  ASSUME job \in [JobInvoice -> JobRecord], NEW statuses, CancelWhere(statuses)
  PROVE  /\ job' \in [JobInvoice -> JobRecord]
         /\ \A j \in JobInvoice : job'[j].status \in {job[j].status, "cancelled"}
<1>1. ASSUME NEW j \in JobInvoice
      PROVE  /\ [job[j] EXCEPT !.status = "cancelled"] \in JobRecord
             /\ [job[j] EXCEPT !.status = "cancelled"].status = "cancelled"
  BY DEF JobRecord, JobStatus, Finished
<1> QED BY <1>1 DEF CancelWhere

\* Saving an invoice writes the new status or nothing.
LEMMA InvoiceSaved ==
  ASSUME invoice \in [JobInvoice -> InvoiceStatus], NEW i \in JobInvoice,
         NEW s \in InvoiceStatus, NEW saw, SaveInvoice(i, saw, s)
  PROVE  /\ invoice' \in [JobInvoice -> InvoiceStatus]
         /\ \A j \in JobInvoice : invoice'[j] \in {invoice[j], s}
         /\ \A j \in JobInvoice \ {i} : invoice'[j] = invoice[j]
BY DEF SaveInvoice

\* Saving a batch writes what the copy was changed to or nothing new.
LEMMA BatchSaved ==
  ASSUME NEW from \in BatchStatus, NEW to \in BatchStatus, batch \in BatchStatus,
         SaveBatch(from, to)
  PROVE  batch' \in {batch, to}
<1>1. CASE from # to
  BY <1>1 DEF SaveBatch
<1>2. CASE from = to /\ to = "open"
  BY <1>2, Zenon DEF SaveBatch
<1>3. CASE from = to /\ to # "open"
  BY <1>3, Zenon DEF SaveBatch
<1> QED BY <1>1, <1>2, <1>3

\* Each step of a worker keeps the invariant: what it writes as paid or succeeded
\* it has charged or found charged, and a roll-up it saves late was true when read.
LEMMA WorkerKeeps ==
  ASSUME JobsInv, NEW w \in Worker, WorkerStep(w) \/ CrashWorker(w) PROVE JobsInv'
<1> DEFINE x == worker[w]
           i == worker[w].inv
<1>a. /\ x \in WorkerRecord /\ i \in JobInvoice /\ x.from \in BatchStatus /\ x.to \in BatchStatus
      /\ x.at \in {"already", "paid", "succeed"} => i \in charged
      /\ x.to = "completed" => charged = JobInvoice
  BY DEF JobsInv, JobsTypeOK, WorkerHonest, WorkerRecord
<1>b. /\ invoice \in [JobInvoice -> InvoiceStatus] /\ job \in [JobInvoice -> JobRecord]
      /\ batch \in BatchStatus /\ charged \subseteq JobInvoice
      /\ \A j \in JobInvoice : /\ invoice[j] = "paid" => j \in charged
                               /\ job[j].status = "succeeded" => j \in charged
      /\ batch = "completed" => charged = JobInvoice
  BY DEF JobsInv, JobsTypeOK, JobsAreCharged, SuccessIsCharged, CompletedIsCharged
<1>c. \A s \in {"processing", "paid", "failed"} : s \in InvoiceStatus
  BY DEF InvoiceStatus
<1>d. \A s \in {"processing", "succeeded", "retrying", "failed", "cancelled"} : s \in JobStatus
  BY DEF JobStatus, Unlocked, Locked, Finished
<1>e. ASSUME NEW at \in WorkerAt, Move(w, at)
      PROVE  \E r \in WorkerRecord : /\ worker' = [worker EXCEPT ![w] = r]
                                     /\ r.at = at /\ r.inv = i /\ r.to = x.to
  <2> DEFINE r == [x EXCEPT !.at = at]
  <2>1. r \in WorkerRecord /\ r.at = at /\ r.inv = i /\ r.to = x.to
    BY <1>a, MoveTyped
  <2>2. worker' = [worker EXCEPT ![w] = r]
    BY <1>e, Zenon DEF Move
  <2> QED BY <2>1, <2>2
<1>f. ASSUME NEW then \in {"idle", "cancelBatchJobs"}, RollUpThen(w, then)
      PROVE  \E r \in WorkerRecord : /\ worker' = [worker EXCEPT ![w] = r]
                                     /\ r.at = "rollup" /\ r.to = "open"
  <2> DEFINE r == [IdleWorker EXCEPT !.at = "rollup", !.then = then]
  <2>1. r \in WorkerRecord /\ r.at = "rollup" /\ r.to = "open"
    BY IdleTyped DEF WorkerRecord
  <2>2. worker' = [worker EXCEPT ![w] = r]
    BY <1>f, Zenon DEF RollUpThen
  <2> QED BY <2>1, <2>2
<1>1. CASE RollupRead(w)
  <2> DEFINE r == [x EXCEPT !.at = "rolled", !.from = batch, !.to = Rollup]
  <2>1. r \in WorkerRecord /\ r.at = "rolled" /\ r.to = Rollup
    BY <1>a, <1>b, RollupHonest DEF WorkerRecord
  <2>2. worker' = [worker EXCEPT ![w] = r]
    BY <1>1, <1>a DEF RollupRead, JobsInv, JobsTypeOK
  <2>3. UNCHANGED <<documents, owner, sweep, charged, queues>>
    BY <1>1 DEF RollupRead
  <2> QED BY <2>1, <2>2, <2>3, RollupHonest, WorkerMoves
<1>2. CASE RollupSave(w)
  <2> DEFINE r == IF x.then = "idle" THEN IdleWorker
                  ELSE [x EXCEPT !.at = x.then, !.then = "idle", !.from = "open", !.to = "open"]
  <2>1. r \in WorkerRecord /\ r.at \notin {"already", "paid", "succeed"} /\ r.to = "open"
    <3>1. x.then \in {"idle", "charge", "cancelBatchJobs"}
      BY <1>a DEF WorkerRecord
    <3>2. CASE x.then = "idle"
      BY <3>2, IdleTyped, Zenon
    <3>3. CASE x.then # "idle"
      <4> DEFINE y == [x EXCEPT !.at = x.then, !.then = "idle", !.from = "open", !.to = "open"]
      <4>1. y \in WorkerRecord
        BY <1>a, <3>1 DEF WorkerRecord, BatchStatus
      <4>2. y.at = x.then /\ y.to = "open"
        BY <1>a DEF WorkerRecord
      <4>3. r = y
        BY <3>3
      <4> HIDE DEF y, r
      <4> QED BY <3>1, <3>3, <4>1, <4>2, <4>3
    <3> QED BY <3>2, <3>3
  <2>2. worker' = [worker EXCEPT ![w] = r]
    BY <1>2, Zenon DEF RollupSave
  <2>3. batch' \in {batch, x.to}
    BY <1>2, <1>a, <1>b, BatchSaved DEF RollupSave
  <2>4. UNCHANGED <<invoice, job, owner, sweep, charged, queues>>
    BY <1>2 DEF RollupSave
  <2> QED BY <1>a, <1>b, <2>1, <2>2, <2>3, <2>4, WorkerActs
<1>3. CASE StartJob(w)
  <2>1. /\ job' \in [JobInvoice -> JobRecord]
        /\ \A j \in JobInvoice : job'[j].status = IF j = i THEN "processing" ELSE job[j].status
    BY <1>3, <1>a, <1>b, <1>d, JobWritten, ZenonT(30) DEF StartJob
  <2>2. PICK r \in WorkerRecord : /\ worker' = [worker EXCEPT ![w] = r]
                                  /\ r.at = "read" /\ r.inv = i /\ r.to = x.to
    BY <1>3, <1>e DEF StartJob, WorkerAt
  <2>3. UNCHANGED <<invoice, batch, owner, sweep, charged, queues>>
    BY <1>3 DEF StartJob
  <2> QED BY <1>a, <1>b, <2>1, <2>2, <2>3, WorkerActs
<1>4. CASE ReadInvoice(w)
  <2> DEFINE r == [x EXCEPT !.saw = invoice[i],
                            !.at = IF invoice[i] = "paid" THEN "already" ELSE "pay"]
  <2>1. r \in WorkerRecord /\ r.inv = i /\ r.to = x.to
        /\ (r.at \in {"already", "paid", "succeed"} => invoice[i] = "paid")
    BY <1>a, <1>b DEF WorkerRecord
  <2>2. worker' = [worker EXCEPT ![w] = r]
    BY <1>4, <1>a DEF ReadInvoice, JobsInv, JobsTypeOK
  <2>3. UNCHANGED <<documents, owner, sweep, charged, queues>>
    BY <1>4 DEF ReadInvoice
  <2>4. r.at \in {"already", "paid", "succeed"} => r.inv \in charged
    BY <1>a, <1>b, <2>1
  <2> HIDE DEF r
  <2> QED BY <1>a, <2>1, <2>2, <2>3, <2>4, WorkerMoves
<1>5. CASE AlreadyPaid(w)
  <2>1. /\ job' \in [JobInvoice -> JobRecord]
        /\ \A j \in JobInvoice : job'[j].status = IF j = i THEN "succeeded" ELSE job[j].status
    BY <1>5, <1>a, <1>b, <1>d, JobWritten DEF AlreadyPaid
  <2>2. i \in charged /\ UNCHANGED <<invoice, batch, owner, sweep, charged, queues>>
    BY <1>5, <1>a DEF AlreadyPaid
  <2>3. worker' = [worker EXCEPT ![w] = IdleWorker]
    BY <1>5 DEF AlreadyPaid
  <2> QED BY <1>b, <2>1, <2>2, <2>3, IdleTyped, WorkerActs
<1>6. CASE BeginPaying(w)
  <2> DEFINE r == [x EXCEPT !.at = "rollup", !.then = "charge", !.saw = "processing"]
  <2>1. r \in WorkerRecord /\ r.at = "rollup" /\ r.to = x.to
    BY <1>a, <1>c DEF WorkerRecord
  <2>2. worker' = [worker EXCEPT ![w] = r]
    BY <1>6, <1>a DEF BeginPaying, JobsInv, JobsTypeOK
  <2>3. /\ invoice' \in [JobInvoice -> InvoiceStatus]
        /\ \A j \in JobInvoice : invoice'[j] \in {invoice[j], "processing"}
    BY <1>6, <1>a, <1>b, <1>c, InvoiceSaved DEF BeginPaying
  <2>4. UNCHANGED <<job, batch, owner, sweep, charged, queues>>
    BY <1>6 DEF BeginPaying
  <2>5. \A j \in JobInvoice : invoice'[j] = "paid" => j \in charged'
    BY <1>b, <2>3, <2>4
  <2> HIDE DEF r
  <2> QED BY <1>a, <1>b, <2>1, <2>2, <2>3, <2>4, <2>5, WorkerActs
<1>g. ASSUME NEW f \in {"retry", "fatal"},
             worker' = [worker EXCEPT ![w].at = "failing", ![w].failure = f]
      PROVE  \E r \in WorkerRecord : /\ worker' = [worker EXCEPT ![w] = r]
                                     /\ r.at = "failing" /\ r.to = x.to
  <2> DEFINE r == [x EXCEPT !.at = "failing", !.failure = f]
  <2>1. r \in WorkerRecord /\ r.at = "failing" /\ r.to = x.to
    BY <1>a DEF WorkerRecord
  <2>2. worker' = [worker EXCEPT ![w] = r]
    BY <1>g, <1>a DEF JobsInv, JobsTypeOK
  <2> QED BY <2>1, <2>2
<1>7. CASE PreparationFails(w)
  <2>1. PICK r \in WorkerRecord : /\ worker' = [worker EXCEPT ![w] = r]
                                  /\ r.at = "failing" /\ r.to = x.to
    BY <1>7, <1>g DEF PreparationFails
  <2>2. UNCHANGED <<documents, owner, sweep, charged, queues>>
    BY <1>7 DEF PreparationFails
  <2> QED BY <1>a, <2>1, <2>2, WorkerMoves
<1>8. CASE ChargeSucceeds(w)
  <2>1. PICK r \in WorkerRecord : /\ worker' = [worker EXCEPT ![w] = r]
                                  /\ r.at = "paid" /\ r.inv = i /\ r.to = x.to
    BY <1>8, <1>e DEF ChargeSucceeds, WorkerAt
  <2>2. charged' = charged \cup {i} /\ UNCHANGED <<invoice, job, batch, owner, sweep, queues>>
    BY <1>8 DEF ChargeSucceeds, documents
  <2> QED BY <1>a, <1>b, <2>1, <2>2, WorkerActs
<1>9. CASE ChargeThrows(w)
  <2>1. PICK r \in WorkerRecord : /\ worker' = [worker EXCEPT ![w] = r]
                                  /\ r.at = "failing" /\ r.to = x.to
    BY <1>9, <1>g DEF ChargeThrows
  <2>2. charged' \in {charged, charged \cup {i}}
        /\ UNCHANGED <<invoice, job, batch, owner, sweep, queues>>
    BY <1>9 DEF ChargeThrows, documents
  <2> QED BY <1>a, <1>b, <2>1, <2>2, WorkerActs
<1>h. ASSUME NEW at \in WorkerAt, MoveWithJob(w, at)
      PROVE  \E r \in WorkerRecord : /\ worker' = [worker EXCEPT ![w] = r]
                                     /\ r.at = at /\ r.inv = i /\ r.to = "open"
  <2> DEFINE r == [IdleWorker EXCEPT !.at = at, !.inv = i]
  <2>1. r \in WorkerRecord /\ r.at = at /\ r.inv = i /\ r.to = "open"
    BY <1>a, IdleTyped DEF WorkerRecord, WorkerAt
  <2>2. worker' = [worker EXCEPT ![w] = r]
    BY <1>h, Zenon DEF MoveWithJob
  <2> QED BY <2>1, <2>2
<1>10. CASE SavePaid(w)
  <2>1. PICK r \in WorkerRecord : /\ worker' = [worker EXCEPT ![w] = r]
                                  /\ r.at = "succeed" /\ r.inv = i /\ r.to = "open"
    BY <1>10, <1>h DEF SavePaid, WorkerAt
  <2>2. /\ invoice' \in [JobInvoice -> InvoiceStatus]
        /\ \A j \in JobInvoice : j # i => invoice'[j] = invoice[j]
    BY <1>10, <1>a, <1>b, <1>c, InvoiceSaved DEF SavePaid
  <2>3. i \in charged /\ UNCHANGED <<job, batch, owner, sweep, charged, queues>>
    BY <1>10, <1>a DEF SavePaid
  <2> QED BY <1>b, <2>1, <2>2, <2>3, WorkerActs
<1>11. CASE SucceedJob(w)
  <2>1. /\ job' \in [JobInvoice -> JobRecord]
        /\ \A j \in JobInvoice : job'[j].status = IF j = i THEN "succeeded" ELSE job[j].status
    <3>1. /\ job' = [job EXCEPT ![i].status = "succeeded"] /\ i \in JobInvoice
          /\ "succeeded" \in JobStatus /\ job \in [JobInvoice -> JobRecord]
      BY <1>11, <1>a, <1>b, <1>d DEF SucceedJob, JobStatus
    <3> QED BY <3>1, JobWritten
  <2>2. i \in charged /\ UNCHANGED <<invoice, batch, owner, sweep, charged, queues>>
    BY <1>11, <1>a DEF SucceedJob
  <2>3. PICK r \in WorkerRecord : /\ worker' = [worker EXCEPT ![w] = r]
                                  /\ r.at = "rollup" /\ r.to = "open"
    BY <1>11, <1>f DEF SucceedJob
  <2> QED BY <1>b, <2>1, <2>2, <2>3, WorkerActs
<1>12. CASE SaveFailed(w)
  <2>1. PICK r \in WorkerRecord : /\ worker' = [worker EXCEPT ![w] = r]
                                  /\ r.at = "giveUp" /\ r.inv = i /\ r.to = x.to
    BY <1>12, <1>e DEF SaveFailed, WorkerAt
  <2>2. /\ invoice' \in [JobInvoice -> InvoiceStatus]
        /\ \A j \in JobInvoice : invoice'[j] \in {invoice[j], "failed"}
    BY <1>12, <1>a, <1>b, <1>c, InvoiceSaved DEF SaveFailed
  <2>3. UNCHANGED <<job, batch, owner, sweep, charged, queues>>
    BY <1>12 DEF SaveFailed
  <2>4. \A j \in JobInvoice : invoice'[j] = "paid" => j \in charged'
    BY <1>b, <2>2, <2>3
  <2> QED BY <1>a, <1>b, <2>1, <2>2, <2>3, <2>4, WorkerActs
<1>13. CASE FailJob(w)
  <2>1. PICK s \in {"retrying", "failed"} : job' = [job EXCEPT ![i].status = s]
    BY <1>13 DEF FailJob
  <2>2. /\ job' \in [JobInvoice -> JobRecord]
        /\ \A j \in JobInvoice : job'[j].status = IF j = i THEN s ELSE job[j].status
    <3>1. s \in JobStatus
      BY <1>d
    <3>2. job \in [JobInvoice -> JobRecord] /\ i \in JobInvoice
      BY <1>a, <1>b
    <3> HIDE DEF i
    <3> QED BY <2>1, <3>1, <3>2, JobWritten
  <2>3. \E r \in WorkerRecord : /\ worker' = [worker EXCEPT ![w] = r]
                                /\ r.at \in {"cancelJobs", "rollup"} /\ r.to = "open"
    <3>1. CASE MoveAlone(w, "cancelJobs")
      <4>1. /\ [IdleWorker EXCEPT !.at = "cancelJobs"] \in WorkerRecord
            /\ [IdleWorker EXCEPT !.at = "cancelJobs"].at = "cancelJobs"
            /\ [IdleWorker EXCEPT !.at = "cancelJobs"].to = "open"
        BY IdleTyped, MoveTyped, ZenonT(30) DEF WorkerAt
      <4> QED BY <3>1, <4>1 DEF MoveAlone
    <3>2. CASE RollUpThen(w, "idle")
      BY <3>2, <1>f
    <3> QED BY <1>13, <3>1, <3>2 DEF FailJob
  <2>4. UNCHANGED <<invoice, batch, owner, sweep, charged, queues>>
    BY <1>13 DEF FailJob
  <2>5. \A j \in JobInvoice : job'[j].status = "succeeded" => j \in charged'
    BY <1>b, <2>2, <2>4
  <2>6. PICK r \in WorkerRecord : /\ worker' = [worker EXCEPT ![w] = r]
                                  /\ r.at \in {"cancelJobs", "rollup"} /\ r.to = "open"
    BY <2>3
  <2> QED BY <1>b, <2>2, <2>4, <2>5, <2>6, WorkerActs
<1>14. ASSUME NEW statuses, NEW at \in {"failInvoices", "failBatchInvoices"},
              CancelWhere(statuses), Move(w, at),
              UNCHANGED <<invoice, batch, owner, sweep, charged, queues>>
       PROVE  JobsInv'
  <2>1. /\ job' \in [JobInvoice -> JobRecord]
        /\ \A j \in JobInvoice : job'[j].status \in {job[j].status, "cancelled"}
    BY <1>b, <1>14, JobsCancelled
  <2>2. PICK r \in WorkerRecord : /\ worker' = [worker EXCEPT ![w] = r]
                                  /\ r.at = at /\ r.inv = i /\ r.to = x.to
    BY <1>14, <1>e DEF WorkerAt
  <2> QED BY <1>a, <1>b, <1>14, <2>1, <2>2, WorkerActs
<1>15. ASSUME NEW statuses, NEW then \in {"idle", "cancelBatchJobs"},
              FailWhere(statuses), RollUpThen(w, then),
              UNCHANGED <<job, batch, owner, sweep, charged, queues>>
       PROVE  JobsInv'
  <2>1. /\ invoice' \in [JobInvoice -> InvoiceStatus]
        /\ \A j \in JobInvoice : invoice'[j] \in {invoice[j], "failed"}
    BY <1>b, <1>c, <1>15 DEF FailWhere
  <2>2. PICK r \in WorkerRecord : /\ worker' = [worker EXCEPT ![w] = r]
                                  /\ r.at = "rollup" /\ r.to = "open"
    BY <1>15, <1>f
  <2>3. \A j \in JobInvoice : invoice'[j] = "paid" => j \in charged'
    BY <1>b, <1>15, <2>1
  <2> QED BY <1>b, <1>15, <2>1, <2>2, <2>3, WorkerActs
<1>16. CASE CrashWorker(w)
  BY <1>16, IdleTyped, WorkerMoves DEF CrashWorker
<1> QED BY <1>1, <1>2, <1>3, <1>4, <1>5, <1>6, <1>7, <1>8, <1>9, <1>10, <1>11, <1>12, <1>13,
           <1>14, <1>15, <1>16
        DEF WorkerStep, CancelSessionJobs, FailSessionInvoices, CancelBatchJobs, FailBatchInvoices

\* A step of the owner's request or the sweep keeps the invariant if it makes
\* nothing paid, succeeded or completed that is not charged.
LEMMA OthersAct ==
  ASSUME JobsInv,
         UNCHANGED <<worker, charged>>,
         owner' \in OwnerRecord, owner'.to = "completed" => charged = JobInvoice,
         sweep' \in [JobInvoice -> SweepRecord],
         queues' \in Nat,
         invoice' \in [JobInvoice -> InvoiceStatus],
         job' \in [JobInvoice -> JobRecord],
         batch' \in BatchStatus,
         \A j \in JobInvoice : invoice'[j] = "paid" => invoice[j] = "paid",
         \A j \in JobInvoice : job'[j].status = "succeeded" => job[j].status = "succeeded",
         batch' = "completed" => charged = JobInvoice
  PROVE  JobsInv'
<1>1. JobsTypeOK'
  BY DEF JobsInv, JobsTypeOK
<1>2. SuccessIsCharged' /\ CompletedIsCharged'
  BY DEF JobsInv, JobsAreCharged, SuccessIsCharged, CompletedIsCharged
<1>3. ASSUME NEW v \in Worker PROVE WorkerHonest(v)'
  BY DEF JobsInv, WorkerHonest
<1> QED BY <1>1, <1>2, <1>3 DEF JobsInv, JobsAreCharged

\* The facts about the documents and the other processes that every step of the
\* owner's request and of the sweep uses.
LEMMA OthersTyped ==
  ASSUME JobsInv
  PROVE  /\ owner \in OwnerRecord /\ sweep \in [JobInvoice -> SweepRecord] /\ queues \in Nat
         /\ invoice \in [JobInvoice -> InvoiceStatus] /\ job \in [JobInvoice -> JobRecord]
         /\ batch \in BatchStatus
         /\ batch = "completed" => charged = JobInvoice
         /\ owner.to = "completed" => charged = JobInvoice
BY DEF JobsInv, JobsTypeOK, JobsAreCharged, CompletedIsCharged

\* Each step of the owner's request keeps the invariant.
LEMMA OwnerKeeps ==
  ASSUME JobsInv,
         (\E i \in JobInvoice : QueueInvoice(i)) \/ QueueBatch \/ OwnerStep
  PROVE  JobsInv'
<1> USE OthersTyped
<1>a. /\ owner.inv \in JobInvoice /\ owner.from \in BatchStatus /\ owner.to \in BatchStatus
      /\ "open" \in BatchStatus
  BY DEF OwnerRecord, BatchStatus
<1>1. ASSUME NEW i \in JobInvoice, QueueInvoice(i) PROVE JobsInv'
  <2> DEFINE o == [IdleOwner EXCEPT !.at = "next", !.todo = {i}, !.saw = invoice]
  <2>1. o \in OwnerRecord /\ o.to = "open"
    BY IdleTyped DEF OwnerRecord
  <2>2. owner' = o /\ UNCHANGED <<invoice, job, batch, worker, sweep, charged>>
    BY <1>1, Zenon DEF QueueInvoice, documents
  <2>3. queues' \in Nat
    <3>1. queues' = queues + 1
      BY <1>1, Zenon DEF QueueInvoice
    <3> QED BY <3>1
  <2> HIDE DEF o
  <2> QED BY <2>1, <2>2, <2>3, OthersAct
<1>2. CASE QueueBatch
  <2> DEFINE open == {j \in JobInvoice : invoice[j] # "paid"}
             o == [IdleOwner EXCEPT !.at = "mark", !.saw = invoice, !.from = batch,
                                    !.then = "next", !.todo = open]
  <2>1. open \in SUBSET JobInvoice
    OBVIOUS
  <2>2. o \in OwnerRecord /\ o.to = "open"
    <3> HIDE DEF open
    <3> QED BY <2>1, IdleTyped DEF OwnerRecord
  <2>3. owner' = o /\ queues' \in Nat /\ UNCHANGED <<invoice, job, batch, worker, sweep, charged>>
    BY <1>2 DEF QueueBatch, documents
  <2> HIDE DEF o
  <2> QED BY <2>2, <2>3, OthersAct
<1>3. CASE MarkBatchQueued
  <2> DEFINE o == [owner EXCEPT !.at = "next", !.from = "open"]
  <2>1. o \in OwnerRecord /\ o.to = owner.to
    BY <1>a DEF OwnerRecord
  <2>2. owner' = o /\ UNCHANGED <<invoice, job, worker, sweep, charged, queues>>
    BY <1>3 DEF MarkBatchQueued
  <2>3. batch' \in {batch, "open"}
    BY <1>3, <1>a, BatchSaved DEF MarkBatchQueued
  <2> HIDE DEF o
  <2> QED BY <1>a, <2>1, <2>2, <2>3, OthersAct
<1>4. ASSUME NEW i \in JobInvoice, FindOrCreateJob(i) PROVE JobsInv'
  <2>1. /\ job' \in [JobInvoice -> JobRecord]
        /\ \A j \in JobInvoice : job'[j].status \in {job[j].status, "queued"}
    <3>1. CASE job' = job
      BY <3>1
    <3>2. CASE job' = [job EXCEPT ![i].status = "queued"]
      <4>1. "queued" \in JobStatus
        BY DEF JobStatus, Unlocked
      <4> QED BY <3>2, <4>1, JobWritten, ZenonT(30)
    <3> QED BY <1>4, <3>1, <3>2 DEF FindOrCreateJob
  <2> DEFINE s == job'[i].status
             at == IF s \in {"failed", "cancelled"} THEN "reset" ELSE "save"
             o == [owner EXCEPT !.inv = i, !.job = s, !.at = at]
  <2>2. s \in JobStatus /\ at \in {"reset", "save"}
    BY <2>1 DEF JobRecord
  <2>3. o \in OwnerRecord /\ o.to = owner.to
    <3> HIDE DEF s, at
    <3> QED BY <2>2 DEF OwnerRecord
  <2>4. owner' = o /\ UNCHANGED <<invoice, batch, worker, sweep, charged, queues>>
    BY <1>4 DEF FindOrCreateJob
  <2> HIDE DEF o
  <2> QED BY <2>1, <2>3, <2>4, OthersAct
<1>5. CASE ResetJob
  <2> DEFINE o == [owner EXCEPT !.at = "save", !.job = "queued"]
             reset == [status |-> "queued", attempts |-> 0]
  <2>1. o \in OwnerRecord /\ o.to = owner.to /\ reset \in JobRecord
    BY DEF OwnerRecord, JobRecord, JobStatus, Unlocked
  <2>2. job' = [job EXCEPT ![owner.inv] = reset]
    BY <1>5 DEF ResetJob
  <2>3. /\ job' \in [JobInvoice -> JobRecord]
        /\ \A j \in JobInvoice : job'[j].status \in {job[j].status, "queued"}
    BY <1>a, <2>1, <2>2
  <2>4. owner' = o /\ UNCHANGED <<invoice, batch, worker, sweep, charged, queues>>
    BY <1>5 DEF ResetJob
  <2> HIDE DEF o
  <2> QED BY <2>1, <2>3, <2>4, OthersAct
<1>6. CASE SaveQueued
  <2> DEFINE saw == [owner.saw EXCEPT ![owner.inv] = "draft"]
             o == [owner EXCEPT !.at = "rollup", !.todo = owner.todo \ {owner.inv}, !.job = "none",
                                !.saw = saw]
             s == IF owner.job \in Locked THEN "processing" ELSE "queued"
  <2>1. saw \in [JobInvoice -> InvoiceStatus] /\ owner.todo \ {owner.inv} \in SUBSET JobInvoice
        /\ "none" \in JobStatus
    BY <1>a DEF OwnerRecord, InvoiceStatus, JobStatus
  <2>2. o \in OwnerRecord /\ o.to = owner.to
    <3> HIDE DEF saw
    <3> QED BY <2>1 DEF OwnerRecord
  <2>3. owner' = o /\ UNCHANGED <<job, batch, worker, sweep, charged, queues>>
    BY <1>6 DEF SaveQueued, OwnerRecord
  <2>4. s \in InvoiceStatus /\ s # "paid" /\ SaveInvoice(owner.inv, owner.saw[owner.inv], s)
    BY <1>6 DEF SaveQueued, InvoiceStatus
  <2> HIDE DEF o, s
  <2>5. /\ invoice' \in [JobInvoice -> InvoiceStatus]
        /\ \A j \in JobInvoice : invoice'[j] \in {invoice[j], s}
    BY <1>a, <2>4, InvoiceSaved
  <2> QED BY <2>2, <2>3, <2>4, <2>5, OthersAct
<1>7. CASE QueueEnds
  <2> DEFINE o == IF owner.todo # {} THEN IdleOwner
                  ELSE [owner EXCEPT !.at = "rollup", !.then = "idle"]
  <2>1. o \in OwnerRecord /\ o.to \in {"open", owner.to}
    BY IdleTyped DEF OwnerRecord
  <2>2. owner' = o /\ UNCHANGED <<invoice, job, batch, worker, sweep, charged, queues>>
    BY <1>7 DEF QueueEnds, documents
  <2> HIDE DEF o
  <2> QED BY <2>1, <2>2, OthersAct
<1>8. CASE OwnerRollupRead
  <2> DEFINE o == [owner EXCEPT !.at = "rolled", !.from = batch, !.to = Rollup]
  <2>1. o \in OwnerRecord /\ o.to = Rollup
    BY RollupHonest DEF OwnerRecord
  <2>2. owner' = o /\ UNCHANGED <<invoice, job, batch, worker, sweep, charged, queues>>
    BY <1>8 DEF OwnerRollupRead, documents
  <2> HIDE DEF o
  <2> QED BY <2>1, <2>2, RollupHonest, OthersAct
<1>9. CASE OwnerRollupSave
  <2> DEFINE o == IF owner.then = "idle" THEN IdleOwner
                  ELSE [owner EXCEPT !.at = "next", !.from = "open", !.to = "open"]
  <2>1. o \in OwnerRecord /\ o.to = "open"
    BY <1>a, IdleTyped DEF OwnerRecord
  <2>2. owner' = o /\ UNCHANGED <<invoice, job, worker, sweep, charged, queues>>
    BY <1>9 DEF OwnerRollupSave
  <2>3. batch' \in {batch, owner.to}
    BY <1>9, <1>a, BatchSaved DEF OwnerRollupSave
  <2> HIDE DEF o
  <2> QED BY <1>a, <2>1, <2>2, <2>3, OthersAct
<1> QED BY <1>1, <1>2, <1>3, <1>4, <1>5, <1>6, <1>7, <1>8, <1>9 DEF OwnerStep

\* Each step of the sweep keeps the invariant.
LEMMA SweepKeeps ==
  ASSUME JobsInv, NEW i \in JobInvoice, SweepStep(i) PROVE JobsInv'
<1> USE OthersTyped
<1>1. CASE FindStaleJob(i)
  <2>1. sweep' \in [JobInvoice -> SweepRecord]
    BY <1>1 DEF FindStaleJob, SweepRecord
  <2> QED BY <1>1, <2>1, OthersAct DEF FindStaleJob, documents
<1>2. CASE RequeueStaleJob(i)
  <2>1. PICK s \in {"failed", "retrying"} : job' = [job EXCEPT ![i].status = s]
    BY <1>2 DEF RequeueStaleJob
  <2>2. s \in JobStatus
    BY DEF JobStatus, Unlocked, Finished
  <2>3. /\ job' \in [JobInvoice -> JobRecord]
        /\ \A j \in JobInvoice : job'[j].status = IF j = i THEN s ELSE job[j].status
    BY <2>1, <2>2, JobWritten
  <2>4. sweep' \in [JobInvoice -> SweepRecord]
    BY <1>2 DEF RequeueStaleJob, SweepRecord
  <2>5. UNCHANGED <<invoice, batch, worker, owner, charged, queues>>
    BY <1>2 DEF RequeueStaleJob
  <2> QED BY <2>1, <2>3, <2>4, <2>5, OthersAct
<1>3. CASE ReadStaleInvoice(i)
  <2>1. sweep' \in [JobInvoice -> SweepRecord]
    BY <1>3, IdleTyped DEF ReadStaleInvoice, SweepRecord
  <2> QED BY <1>3, <2>1, OthersAct DEF ReadStaleInvoice, documents
<1>4. CASE RequeueStaleInvoice(i)
  <2>1. PICK s \in {"failed", "queued"} : invoice' = [invoice EXCEPT ![i] = s]
    BY <1>4 DEF RequeueStaleInvoice
  <2>2. s \in InvoiceStatus
    BY DEF InvoiceStatus
  <2>3. sweep' \in [JobInvoice -> SweepRecord]
    BY <1>4, IdleTyped DEF RequeueStaleInvoice
  <2>4. UNCHANGED <<job, batch, worker, owner, charged, queues>>
    BY <1>4 DEF RequeueStaleInvoice
  <2> QED BY <2>1, <2>2, <2>3, <2>4, OthersAct
<1> QED BY <1>1, <1>2, <1>3, <1>4 DEF SweepStep

\* Locking a job pays nothing.
LEMMA LockKeeps ==
  ASSUME JobsInv, NEW w \in Worker, NEW i \in JobInvoice, LockNextPaymentJob(w, i)
  PROVE  JobsInv'
<1> DEFINE x == worker[w]
           n == job[i].attempts + 1
           last == n >= MaxAttempts
           r == [x EXCEPT !.at = "start", !.inv = i, !.last = last]
           locked == [job[i] EXCEPT !.status = "locked", !.attempts = n]
<1>1. x \in WorkerRecord /\ job[i] \in JobRecord /\ (x.to = "completed" => charged = JobInvoice)
  BY DEF JobsInv, JobsTypeOK, WorkerHonest
<1>a. n \in Nat
  BY <1>1 DEF JobRecord
<1>2. r \in WorkerRecord /\ r.at = "start" /\ r.to = x.to
  <2>1. last \in BOOLEAN
    <3> HIDE DEF n
    <3> QED BY <1>a, JobsAssumption
  <2> HIDE DEF last
  <2> QED BY <1>1, <2>1 DEF WorkerRecord
<1>3. locked \in JobRecord /\ locked.status = "locked"
  <2> HIDE DEF n
  <2> QED BY <1>1, <1>a DEF JobRecord, JobStatus, Locked
<1>4. job' = [job EXCEPT ![i] = locked]
  BY <1>1 DEF LockNextPaymentJob, JobsInv, JobsTypeOK
<1>5. worker' = [worker EXCEPT ![w] = r]
  BY <1>1 DEF LockNextPaymentJob, JobsInv, JobsTypeOK
<1>6. UNCHANGED <<invoice, batch, owner, sweep, charged, queues>>
  BY DEF LockNextPaymentJob
<1> HIDE DEF r, locked
<1>7. /\ job' \in [JobInvoice -> JobRecord]
      /\ \A j \in JobInvoice : job'[j].status = "succeeded" => job[j].status = "succeeded"
  BY <1>3, <1>4 DEF JobsInv, JobsTypeOK
<1> QED BY <1>1, <1>2, <1>5, <1>6, <1>7, WorkerActs
        DEF JobsInv, JobsTypeOK, JobsAreCharged, SuccessIsCharged, CompletedIsCharged

\* Every step of the workers, the owner and the sweep keeps the invariant.
LEMMA JobsStep == JobsInv /\ [JobsNext]_jobsVars => JobsInv'
<1> SUFFICES ASSUME JobsInv, [JobsNext]_jobsVars PROVE JobsInv'
  OBVIOUS
<1>1. CASE UNCHANGED jobsVars
  BY <1>1 DEF jobsVars, documents, JobsInv, JobsTypeOK, JobsAreCharged, SuccessIsCharged,
    CompletedIsCharged, WorkerHonest
<1> QED BY <1>1, LockKeeps, WorkerKeeps, OwnerKeeps, SweepKeeps DEF JobsNext

\* processPaymentJob, queueInvoiceDocument, requeueStalePaymentJobs and the roll-ups
\* write stale copies over one another in any order, with any number of workers,
\* invoices and crashes: what says paid, succeeded or completed was charged.
THEOREM JobsCharged == JobsSpec => [](JobsTypeOK /\ JobsAreCharged)
<1>1. JobsInv => JobsTypeOK /\ JobsAreCharged
  BY DEF JobsInv
<1> QED BY <1>1, JobsStep, JobsInitial, PTL DEF JobsSpec

-----------------------------------------------------------------------------
(* Scheduled payouts.                                                      *)
\* The steps of a worker: after the charge of a recipient, after its settlement, with a
\* recipient in hand, and those of a payout worker only.
AfterCharge == {"settle", "settled", "paid", "receipt"}
AfterSettling == {"paid", "receipt"}
Handling == {"liquidity", "record", "ready", "fail", "pay"} \cup AfterCharge
PayingOnly == {"pay", "finalize", "advance"} \cup AfterCharge
CrewStep == {"idle", "next", "finalize", "advance"} \cup Handling
Busy(w) == crew[w].pc \notin {"idle", "finalize"}

WalletRecord == [status: {"pending", "processing", "paid", "failed"}, code: FailureCodes,
                 old: BOOLEAN, bridge: BOOLEAN, channel: BOOLEAN, settlement: BOOLEAN,
                 receipt: {"none", "sent", "failed"}, reusable: BOOLEAN]
CrewRecord == [pc: CrewStep, i: 1..(Len(setting.rails) + 1), todo: SUBSET Payee,
               settled: SUBSET Payee, cycle: PayoutCycle, code: FailureCodes,
               kind: {"none", "bridge", "topUp", "channel"}]
TransferRecord == [sent: Nat, unheard: Nat]
SentRecord == [bridge: [PayoutCycle -> TransferRecord],
               settlement: [PayoutCycle -> TransferRecord]]

PayoutTyped ==
    /\ setting \in Settings
    /\ payPass \in [status: {"active", "settled"}, cycle: PayoutCycle]
    /\ payee \in [Payee -> WalletRecord]
    /\ payCharge \in [Payee \X PayoutCycle -> {"none", "failed", "succeeded"}]
    /\ payoutSent \in [Payee -> SentRecord]
    /\ crew \in [PayoutWorker -> CrewRecord]

\* A worker runs only where the pass has it, and has a recipient of its list in hand.
CrewFacts(w) ==
    /\ crew[w].pc # "idle" => w \in setting.crew
    /\ crew[w].pc \in Handling => crew[w].i \in crew[w].todo
    /\ crew[w].pc \in PayingOnly => w \in PayWorker
    /\ crew[w].pc = "record" => crew[w].kind # "none"

\* The first cycle's charge of recipient i succeeded, and that of every recipient.
FirstCharged(i) == payCharge[<<i, 1>>] = "succeeded"
AllFirstCharged == \A i \in Payee : FirstCharged(i)

\* A success of a later cycle comes after all of the first one's.
ChargeFacts ==
    /\ \A i \in Payee, c \in PayoutCycle : payCharge[<<i, c>>] = "succeeded" => FirstCharged(i)
    /\ \A w \in PayoutWorker :
          /\ crew[w].cycle > 1 \/ crew[w].pc = "advance" => AllFirstCharged
          /\ crew[w].pc \in AfterCharge => FirstCharged(crew[w].i)
    /\ \A i \in Payee :
          payee[i].status = "paid" \/ payee[i].receipt = "sent" => FirstCharged(i)
    /\ \A i \in Payee, c \in PayoutCycle : payoutSent[i].settlement[c].sent > 0 => FirstCharged(i)
    /\ payPass.cycle > 1 \/ payPass.status = "settled" => AllFirstCharged
    /\ ~setting.recurring => payPass.cycle = 1

\* A worker's copy has every settlement of the recipients it still goes to.
CopyIsTrue(w) ==
    \A j \in crew[w].todo :
       payee[j].settlement => j \in crew[w].settled
                              \/ (crew[w].pc \in AfterSettling /\ crew[w].i = j)

\* A transfer was sent whose answer is not lost.
Outstanding(t) == t.sent > t.unheard

\* One payout worker that is not stopped settles once, and again for a lost answer.
OnePayer == ~setting.stops /\ \A v, w \in setting.crew \cap PayWorker : v = w
SettleFacts ==
    OnePayer =>
       /\ \A w \in PayWorker : Busy(w) => crew[w].cycle = payPass.cycle /\ CopyIsTrue(w)
       /\ \A i \in Payee, c \in PayoutCycle :
             /\ ResentForAnswers(payoutSent[i].settlement[c])
             /\ c > payPass.cycle => payoutSent[i].settlement[c] = NoTransfer
       /\ \A i \in Payee :
             Outstanding(payoutSent[i].settlement[payPass.cycle]) =>
                payee[i].settlement \/ \E w \in PayWorker : crew[w].pc = "settled" /\ crew[w].i = i

\* One worker that is not stopped sends one bridge transfer, and one for a lost answer.
OneWorker == ~setting.stops /\ \A v, w \in setting.crew : v = w
BridgeFacts ==
    OneWorker =>
       /\ \A w \in PayoutWorker : Busy(w) => crew[w].cycle = payPass.cycle
       /\ \A i \in Payee, c \in PayoutCycle :
             /\ ResentForAnswers(payoutSent[i].bridge[c])
             /\ c > payPass.cycle => payoutSent[i].bridge[c] = NoTransfer
       /\ \A i \in Payee :
             Outstanding(payoutSent[i].bridge[payPass.cycle]) =>
                payee[i].bridge \/ \E w \in PayoutWorker : /\ crew[w].pc = "record" /\ crew[w].i = i
                                                           /\ crew[w].kind = "bridge"

PayoutInv ==
    /\ PayoutTyped
    /\ \A w \in PayoutWorker : CrewFacts(w)
    /\ ChargeFacts /\ SettleFacts /\ BridgeFacts

-----------------------------------------------------------------------------
\* The recipients of a pass are numbered, and its setting does not change.
LEMMA PayeeFacts ==
  ASSUME PayoutInv
  PROVE  /\ Len(setting.rails) \in Nat /\ Payee = 1..Len(setting.rails)
         /\ setting.recurring \in BOOLEAN /\ setting.stops \in BOOLEAN
         /\ setting.crew \subseteq PayoutWorker
BY PayoutAssumption DEF PayoutInv, PayoutTyped, Payee, PayoutWorker

\* What depends on the setting only stays as it is.
LEMMA SameSetting ==
  ASSUME setting' = setting
  PROVE  /\ Payee' = Payee /\ CrewRecord' = CrewRecord
         /\ OnePayer' = OnePayer /\ OneWorker' = OneWorker
BY DEF Payee, CrewRecord, OnePayer, OneWorker

\* The first cycle is a cycle.
LEMMA FirstCycle == 1 \in PayoutCycle /\ MaxCycle \in Nat /\ \A c \in PayoutCycle : c \in Nat
BY PayoutAssumption DEF PayoutCycle

\* Before a transfer is sent, none is outstanding.
LEMMA TransferCounts ==
  /\ NoTransfer \in TransferRecord /\ NoTransfer.sent = 0
  /\ ~Outstanding(NoTransfer) /\ ResentForAnswers(NoTransfer)
BY DEF NoTransfer, TransferRecord, Outstanding, ResentForAnswers

\* The record a worker goes on with is one it may have.
CrewFits(w, r) ==
    /\ r \in CrewRecord
    /\ r.pc # "idle" => w \in setting.crew
    /\ r.pc \in Handling => r.i \in r.todo
    /\ r.pc \in PayingOnly => w \in PayWorker
    /\ r.pc = "record" => r.kind # "none"

\* A worker goes on and leaves the documents well formed.
LEMMA CrewKept ==
  ASSUME PayoutInv, setting' = setting, NEW w \in PayoutWorker, NEW r, CrewFits(w, r),
         PayNow(w, r),
         payPass' \in [status: {"active", "settled"}, cycle: PayoutCycle],
         payee' \in [Payee -> WalletRecord],
         payCharge' \in [Payee \X PayoutCycle -> {"none", "failed", "succeeded"}],
         payoutSent' \in [Payee -> SentRecord]
  PROVE  PayoutTyped' /\ \A v \in PayoutWorker : CrewFacts(v)'
<1>1. crew \in [PayoutWorker -> CrewRecord] /\ crew' = [crew EXCEPT ![w] = r] /\ r \in CrewRecord
      /\ setting \in Settings
  BY DEF PayoutInv, PayoutTyped, PayNow, CrewFits
<1>2. crew' \in [PayoutWorker -> CrewRecord]
      /\ \A v \in PayoutWorker : crew'[v] = IF v = w THEN r ELSE crew[v]
  BY <1>1
<1>3. PayoutTyped'
  BY <1>1, <1>2, SameSetting DEF PayoutTyped
<1>4. ASSUME NEW v \in PayoutWorker PROVE CrewFacts(v)'
  BY <1>2 DEF CrewFits, CrewFacts, PayoutInv
<1> QED BY <1>3, <1>4

\* Successes stay, and what is written as paid, received or settled has one.
LEMMA ChargesKept ==
  ASSUME PayoutInv, setting' = setting, NEW w \in PayoutWorker, NEW r, PayNow(w, r),
         r \in CrewRecord,
         \A i \in Payee : FirstCharged(i) => FirstCharged(i)',
         \A i \in Payee, c \in PayoutCycle :
            payCharge'[<<i, c>>] = "succeeded" => payCharge'[<<i, 1>>] = "succeeded",
         r.cycle > 1 \/ r.pc = "advance" => AllFirstCharged,
         r.pc \in AfterCharge => payCharge'[<<r.i, 1>>] = "succeeded",
         \A i \in Payee :
            payee'[i].status = "paid" \/ payee'[i].receipt = "sent" => FirstCharged(i),
         \A i \in Payee, c \in PayoutCycle :
            payoutSent'[i].settlement[c].sent > 0 => FirstCharged(i),
         payPass'.cycle > 1 \/ payPass'.status = "settled" => AllFirstCharged,
         ~setting.recurring => payPass'.cycle = 1
  PROVE  ChargeFacts'
<1>1. crew \in [PayoutWorker -> CrewRecord] /\ crew' = [crew EXCEPT ![w] = r] /\ Payee' = Payee
  BY SameSetting DEF PayoutInv, PayoutTyped, PayNow
<1>2. \A v \in PayoutWorker : crew'[v] = IF v = w THEN r ELSE crew[v]
  BY <1>1
<1>3. AllFirstCharged => AllFirstCharged'
  BY <1>1 DEF AllFirstCharged
<1>4. ASSUME NEW v \in PayoutWorker
      PROVE  /\ crew'[v].cycle > 1 \/ crew'[v].pc = "advance" => AllFirstCharged'
             /\ crew'[v].pc \in AfterCharge => payCharge'[<<crew'[v].i, 1>>] = "succeeded"
  <2>1. CASE v = w
    BY <1>2, <1>3, <2>1
  <2>2. CASE v # w
    <3>1. crew'[v] = crew[v]
      BY <1>2, <2>2
    <3>2. crew[v].pc \in AfterCharge => crew[v].i \in Payee
      BY <1>1 DEF PayoutInv, CrewFacts, CrewRecord, Handling
    <3> QED BY <1>3, <3>1, <3>2 DEF PayoutInv, ChargeFacts, FirstCharged
  <2> QED BY <2>1, <2>2
<1>5. \A i \in Payee : FirstCharged(i)' <=> payCharge'[<<i, 1>>] = "succeeded"
  BY DEF FirstCharged
<1>6. \A i \in Payee, c \in PayoutCycle : payCharge'[<<i, c>>] = "succeeded" => FirstCharged(i)'
  BY <1>5
<1>7. \A i \in Payee : payee'[i].status = "paid" \/ payee'[i].receipt = "sent" => FirstCharged(i)'
  OBVIOUS
<1>8. \A i \in Payee, c \in PayoutCycle : payoutSent'[i].settlement[c].sent > 0 => FirstCharged(i)'
  OBVIOUS
<1>9. PayoutCycle' = PayoutCycle /\ PayoutWorker' = PayoutWorker
  BY DEF PayoutCycle, PayoutWorker
<1> QED BY <1>1, <1>3, <1>4, <1>6, <1>7, <1>8, <1>9 DEF ChargeFacts, FirstCharged

\* What a step of w does to the settlements it knows of where it settles alone: it works
\* in the pass's cycle from a true copy, and records what it sent before it goes on.
SettlesFor(w, r) ==
    OnePayer =>
       /\ \A j \in Payee : /\ payee[j].settlement => payee'[j].settlement
                           /\ payee'[j].settlement /\ ~payee[j].settlement => crew[w].pc = "settled"
       /\ w \in PayWorker /\ r.pc \notin {"idle", "finalize"} =>
             /\ r.cycle = payPass.cycle
             /\ \A j \in r.todo : payee'[j].settlement =>
                   j \in r.settled \/ (r.pc \in AfterSettling /\ r.i = j)
       /\ crew[w].pc = "settled" => payee'[crew[w].i].settlement

\* Such a step that sends no settlement keeps them single.
LEMMA SettlesKept ==
  ASSUME PayoutInv, setting' = setting, payPass'.cycle = payPass.cycle,
         NEW w \in PayoutWorker, NEW r, PayNow(w, r), SettlesFor(w, r),
         \A i \in Payee : payoutSent'[i].settlement = payoutSent[i].settlement
  PROVE  SettleFacts'
<1>1. crew \in [PayoutWorker -> CrewRecord] /\ crew' = [crew EXCEPT ![w] = r] /\ Payee' = Payee
      /\ OnePayer' = OnePayer
  BY SameSetting DEF PayoutInv, PayoutTyped, PayNow
<1>2. \A v \in PayoutWorker : crew'[v] = IF v = w THEN r ELSE crew[v]
  BY <1>1
<1> SUFFICES ASSUME OnePayer PROVE SettleFacts'
  BY <1>1 DEF SettleFacts
<1>3. PayWorker \subseteq PayoutWorker
  BY DEF PayoutWorker
<1>4. ASSUME NEW v \in PayWorker, Busy(v)'
      PROVE  crew'[v].cycle = payPass.cycle /\ CopyIsTrue(v)'
  <2>1. CASE v = w
    BY <1>2, <1>3, <1>4, <2>1 DEF SettlesFor, Busy, CopyIsTrue
  <2>2. CASE v # w
    <3>1. crew'[v] = crew[v] /\ Busy(v)
      BY <1>2, <1>3, <1>4, <2>2 DEF Busy
    <3>2. crew[v].cycle = payPass.cycle /\ CopyIsTrue(v) /\ v \in setting.crew
      BY <1>3, <3>1 DEF PayoutInv, SettleFacts, CrewFacts, Busy
    <3>3. crew[w].pc # "settled"
      BY <1>4, <2>2, <3>2 DEF PayoutInv, CrewFacts, OnePayer, PayingOnly, AfterCharge
    <3>4. \A j \in crew[v].todo : j \in Payee
      BY <1>1, <1>3 DEF CrewRecord
    <3> QED BY <3>1, <3>2, <3>3, <3>4 DEF SettlesFor, CopyIsTrue
  <2> QED BY <2>1, <2>2
<1>5. ASSUME NEW i \in Payee, Outstanding(payoutSent[i].settlement[payPass.cycle])
      PROVE  payee'[i].settlement \/ \E v \in PayWorker : crew'[v].pc = "settled" /\ crew'[v].i = i
  <2>1. CASE payee[i].settlement
    BY <2>1 DEF SettlesFor
  <2>2. ASSUME NEW v \in PayWorker, crew[v].pc = "settled", crew[v].i = i
        PROVE  payee'[i].settlement \/ (crew'[v].pc = "settled" /\ crew'[v].i = i)
    BY <1>2, <1>3, <2>2 DEF SettlesFor
  <2> QED BY <1>5, <2>1, <2>2 DEF PayoutInv, SettleFacts
<1>6. \A i \in Payee, c \in PayoutCycle :
         /\ ResentForAnswers(payoutSent'[i].settlement[c])
         /\ c > payPass.cycle => payoutSent'[i].settlement[c] = NoTransfer
  BY DEF PayoutInv, SettleFacts
<1> QED BY <1>1, <1>4, <1>5, <1>6 DEF SettleFacts

\* The same for the bridge transfers of a worker that runs alone.
BridgesFor(w, r) ==
    OneWorker =>
       /\ \A j \in Payee : payee[j].bridge => payee'[j].bridge
       /\ r.pc \notin {"idle", "finalize"} => r.cycle = payPass.cycle
       /\ crew[w].pc = "record" /\ crew[w].kind = "bridge" => payee'[crew[w].i].bridge

\* Such a step that sends no bridge transfer keeps them single.
LEMMA BridgesKept ==
  ASSUME PayoutInv, setting' = setting, payPass'.cycle = payPass.cycle,
         NEW w \in PayoutWorker, NEW r, PayNow(w, r), BridgesFor(w, r),
         \A i \in Payee : payoutSent'[i].bridge = payoutSent[i].bridge
  PROVE  BridgeFacts'
<1>1. crew \in [PayoutWorker -> CrewRecord] /\ crew' = [crew EXCEPT ![w] = r] /\ Payee' = Payee
      /\ OneWorker' = OneWorker
  BY SameSetting DEF PayoutInv, PayoutTyped, PayNow
<1>2. \A v \in PayoutWorker : crew'[v] = IF v = w THEN r ELSE crew[v]
  BY <1>1
<1> SUFFICES ASSUME OneWorker PROVE BridgeFacts'
  BY <1>1 DEF BridgeFacts
<1>3. ASSUME NEW v \in PayoutWorker, Busy(v)' PROVE crew'[v].cycle = payPass.cycle
  BY <1>2, <1>3 DEF BridgesFor, Busy, PayoutInv, BridgeFacts
<1>4. ASSUME NEW i \in Payee, Outstanding(payoutSent[i].bridge[payPass.cycle])
      PROVE  payee'[i].bridge \/ \E v \in PayoutWorker : /\ crew'[v].pc = "record" /\ crew'[v].i = i
                                                         /\ crew'[v].kind = "bridge"
  <2>1. CASE payee[i].bridge
    BY <2>1 DEF BridgesFor
  <2>2. ASSUME NEW v \in PayoutWorker, crew[v].pc = "record", crew[v].i = i,
               crew[v].kind = "bridge"
        PROVE  payee'[i].bridge \/ crew'[v] = crew[v]
    BY <1>2, <2>2 DEF BridgesFor
  <2> QED BY <1>4, <2>1, <2>2 DEF PayoutInv, BridgeFacts
<1>5. \A i \in Payee, c \in PayoutCycle :
         /\ ResentForAnswers(payoutSent'[i].bridge[c])
         /\ c > payPass.cycle => payoutSent'[i].bridge[c] = NoTransfer
  BY DEF PayoutInv, BridgeFacts
<1> QED BY <1>1, <1>3, <1>4, <1>5 DEF BridgeFacts

\* A step that only writes a worker and the recipients.
LEMMA PayoutKept ==
  ASSUME PayoutInv, setting' = setting, payPass' = payPass, payCharge' = payCharge,
         payoutSent' = payoutSent, payee' \in [Payee -> WalletRecord],
         NEW w \in PayoutWorker, NEW r, PayNow(w, r), CrewFits(w, r),
         r.cycle > 1 \/ r.pc = "advance" => AllFirstCharged,
         r.pc \in AfterCharge => FirstCharged(r.i),
         \A i \in Payee :
            payee'[i].status = "paid" \/ payee'[i].receipt = "sent" => FirstCharged(i),
         SettlesFor(w, r), BridgesFor(w, r)
  PROVE  PayoutInv'
<1>1. PayoutTyped' /\ \A v \in PayoutWorker : CrewFacts(v)'
  BY CrewKept DEF PayoutInv, PayoutTyped
<1>2. ChargeFacts'
  <2>1. /\ \A i \in Payee : FirstCharged(i) => FirstCharged(i)'
        /\ \A i \in Payee, c \in PayoutCycle :
              payCharge'[<<i, c>>] = "succeeded" => payCharge'[<<i, 1>>] = "succeeded"
        /\ r.pc \in AfterCharge => payCharge'[<<r.i, 1>>] = "succeeded"
        /\ \A i \in Payee, c \in PayoutCycle :
              payoutSent'[i].settlement[c].sent > 0 => FirstCharged(i)
        /\ payPass'.cycle > 1 \/ payPass'.status = "settled" => AllFirstCharged
        /\ ~setting.recurring => payPass'.cycle = 1
        /\ r \in CrewRecord
    BY DEF PayoutInv, ChargeFacts, FirstCharged, CrewFits
  <2> QED BY <2>1, ChargesKept
<1>3. SettleFacts'
  BY SettlesKept
<1>4. BridgeFacts'
  BY BridgesKept
<1> QED BY <1>1, <1>2, <1>3, <1>4 DEF PayoutInv

\* The recipients keep their transfers, and what is paid or received was charged.
WalletsKept ==
    /\ payee' \in [Payee -> WalletRecord]
    /\ \A i \in Payee :
          /\ payee'[i].settlement = payee[i].settlement
          /\ payee[i].bridge => payee'[i].bridge
          /\ payee'[i].status = "paid" \/ payee'[i].receipt = "sent" => FirstCharged(i)

\* A step that writes no recipient keeps them.
LEMMA WalletsSame ==
  ASSUME PayoutInv, payee' = payee
  PROVE  WalletsKept
BY DEF PayoutInv, PayoutTyped, ChargeFacts, WalletsKept

\* So does one that writes a single recipient and keeps its transfers.
LEMMA WalletWritten ==
  ASSUME PayoutInv, NEW i \in Payee, NEW x \in WalletRecord, payee' = [payee EXCEPT ![i] = x],
         x.settlement = payee[i].settlement, payee[i].bridge => x.bridge,
         x.status = "paid" \/ x.receipt = "sent" => FirstCharged(i)
  PROVE  WalletsKept
<1>1. payee \in [Payee -> WalletRecord]
  BY DEF PayoutInv, PayoutTyped
<1>2. payee' \in [Payee -> WalletRecord] /\ payee'[i] = x
      /\ \A j \in Payee \ {i} : payee'[j] = payee[j]
  BY <1>1
<1> QED BY <1>2 DEF WalletsKept, PayoutInv, ChargeFacts

\* A step of no worker.
LEMMA WalletTouched ==
  ASSUME PayoutInv, WalletsKept, UNCHANGED <<setting, payPass, payCharge, payoutSent, crew>>
  PROVE  PayoutInv'
<1>1. Payee' = Payee /\ OnePayer' = OnePayer /\ OneWorker' = OneWorker /\ CrewRecord' = CrewRecord
  BY SameSetting
<1>2. PayoutTyped'
  BY <1>1 DEF PayoutInv, PayoutTyped, WalletsKept
<1>3. \A w \in PayoutWorker : CrewFacts(w)'
  BY DEF PayoutInv, CrewFacts
<1>4. ChargeFacts'
  BY <1>1 DEF PayoutInv, ChargeFacts, WalletsKept, FirstCharged, AllFirstCharged
<1>5. SettleFacts'
  <2> SUFFICES ASSUME OnePayer PROVE SettleFacts'
    BY <1>1 DEF SettleFacts
  <2>1. ASSUME NEW w \in PayWorker, Busy(w)'
        PROVE  crew'[w].cycle = payPass'.cycle /\ CopyIsTrue(w)'
    <3>1. crew[w].cycle = payPass.cycle /\ CopyIsTrue(w)
      BY <2>1 DEF PayoutInv, SettleFacts, Busy
    <3>2. \A j \in crew[w].todo : j \in Payee
      BY DEF PayoutInv, PayoutTyped, CrewRecord, PayoutWorker
    <3> QED BY <3>1, <3>2 DEF CopyIsTrue, WalletsKept
  <2> QED BY <1>1, <2>1 DEF PayoutInv, SettleFacts, WalletsKept
<1>6. BridgeFacts'
  BY <1>1 DEF PayoutInv, BridgeFacts, WalletsKept, Busy
<1> QED BY <1>2, <1>3, <1>4, <1>5, <1>6 DEF PayoutInv

\* The pass, its charges and what was sent are as they were.
BooksKept == UNCHANGED <<setting, payPass, payCharge, payoutSent>>

\* Worker w goes on with the recipient it has in hand.
LEMMA WorkerGoesOn ==
  ASSUME PayoutInv, BooksKept, WalletsKept, NEW w \in PayoutWorker, NEW r \in CrewRecord,
         PayNow(w, r), crew[w].pc \in Handling \cup {"next"}, crew[w].pc # "settled",
         crew[w].i \in crew[w].todo,
         r.i = crew[w].i, r.todo = crew[w].todo, r.settled = crew[w].settled,
         r.cycle = crew[w].cycle, r.pc \in Handling, r.pc # "record",
         r.pc \in PayingOnly => w \in PayWorker,
         r.pc \in AfterCharge => FirstCharged(crew[w].i),
         crew[w].pc \in AfterSettling => r.pc \in AfterSettling,
         crew[w].pc = "record" /\ crew[w].kind = "bridge" => payee'[crew[w].i].bridge
  PROVE  PayoutInv'
<1>1. Busy(w) /\ crew[w].pc # "idle" /\ crew[w] \in CrewRecord
  BY DEF Busy, Handling, AfterCharge, PayoutInv, PayoutTyped
<1>2. CrewFits(w, r)
  BY <1>1 DEF CrewFits, PayoutInv, CrewFacts
<1>3. r.cycle > 1 \/ r.pc = "advance" => AllFirstCharged
  BY DEF PayoutInv, ChargeFacts, Handling, AfterCharge
<1>4. \A j \in r.todo : j \in Payee
  BY DEF CrewRecord
<1>5. SettlesFor(w, r)
  <2> SUFFICES ASSUME OnePayer, w \in PayWorker
               PROVE  /\ r.cycle = payPass.cycle
                      /\ \A j \in r.todo : payee'[j].settlement =>
                            j \in r.settled \/ (r.pc \in AfterSettling /\ r.i = j)
    BY DEF SettlesFor, WalletsKept
  <2>1. r.cycle = payPass.cycle /\ CopyIsTrue(w)
    BY <1>1 DEF PayoutInv, SettleFacts
  <2> QED BY <1>4, <2>1 DEF CopyIsTrue, WalletsKept
<1>6. BridgesFor(w, r)
  BY <1>1 DEF BridgesFor, WalletsKept, PayoutInv, BridgeFacts
<1>7. /\ payee' \in [Payee -> WalletRecord]
      /\ \A i \in Payee : payee'[i].status = "paid" \/ payee'[i].receipt = "sent" => FirstCharged(i)
      /\ r.pc \in AfterCharge => FirstCharged(r.i)
      /\ setting' = setting /\ payPass' = payPass /\ payCharge' = payCharge
      /\ payoutSent' = payoutSent
  BY DEF WalletsKept, BooksKept
<1> QED BY <1>2, <1>3, <1>5, <1>6, <1>7, PayoutKept

\* NextRecipient is a record a worker may have, with its recipient off the list.
LEMMA NextFits ==
  ASSUME PayoutInv, NEW w \in PayoutWorker, crew[w].pc # "idle", crew[w].i \in Payee
  PROVE  /\ CrewFits(w, NextRecipient(w)) /\ NextRecipient(w).pc = "next"
         /\ NextRecipient(w).cycle = crew[w].cycle
         /\ NextRecipient(w).todo = crew[w].todo \ {crew[w].i}
         /\ NextRecipient(w).settled = crew[w].settled \ {crew[w].i}
<1>1. /\ crew[w] \in CrewRecord /\ Len(setting.rails) \in Nat
      /\ crew[w].i \in 1..Len(setting.rails) /\ w \in setting.crew
  BY PayeeFacts DEF PayoutInv, PayoutTyped, CrewFacts
<1>2. crew[w].i + 1 \in 1..(Len(setting.rails) + 1)
  BY <1>1
<1>3. PICK n \in 1..(Len(setting.rails) + 1), T \in SUBSET Payee, S \in SUBSET Payee :
         n = crew[w].i + 1 /\ T = crew[w].todo \ {crew[w].i} /\ S = crew[w].settled \ {crew[w].i}
  BY <1>1, <1>2 DEF CrewRecord
<1>4. NextRecipient(w) = [crew[w] EXCEPT !.pc = "next", !.i = n, !.code = "none", !.kind = "none",
                                         !.todo = T, !.settled = S]
  BY <1>1, <1>3 DEF NextRecipient, PayeeOf, CrewRecord
<1>5. /\ NextRecipient(w) \in CrewRecord /\ NextRecipient(w).pc = "next"
      /\ NextRecipient(w).cycle = crew[w].cycle
      /\ NextRecipient(w).todo = T /\ NextRecipient(w).settled = S
  <2>1. "next" \in CrewStep /\ "none" \in FailureCodes
    BY DEF CrewStep, FailureCodes
  <2> QED BY <1>1, <1>4, <2>1 DEF CrewRecord
<1> QED BY <1>1, <1>3, <1>5 DEF CrewFits, Handling, AfterCharge, PayingOnly

\* Worker w goes to its next recipient.
LEMMA WorkerNext ==
  ASSUME PayoutInv, BooksKept, WalletsKept, NEW w \in PayoutWorker, PayNow(w, NextRecipient(w)),
         crew[w].pc \in {"next", "receipt", "fail", "ready"}, crew[w].i \in Payee
  PROVE  PayoutInv'
<1>1. PICK r : r = NextRecipient(w)
  OBVIOUS
<1>2. /\ CrewFits(w, r) /\ r.pc = "next" /\ r.cycle = crew[w].cycle
      /\ r.todo = crew[w].todo \ {crew[w].i} /\ r.settled = crew[w].settled \ {crew[w].i}
      /\ PayNow(w, r) /\ Busy(w)
  BY <1>1, NextFits DEF Busy
<1>3. r.cycle > 1 \/ r.pc = "advance" => AllFirstCharged
  BY <1>2 DEF PayoutInv, ChargeFacts
<1>4. \A j \in r.todo : j \in Payee
  BY <1>2 DEF CrewFits, CrewRecord
<1>5. SettlesFor(w, r)
  <2> SUFFICES ASSUME OnePayer, w \in PayWorker
               PROVE  /\ r.cycle = payPass.cycle
                      /\ \A j \in r.todo : payee'[j].settlement => j \in r.settled
    BY DEF SettlesFor, WalletsKept
  <2>1. crew[w].cycle = payPass.cycle /\ CopyIsTrue(w)
    BY <1>2 DEF PayoutInv, SettleFacts
  <2> QED BY <1>2, <1>4, <2>1 DEF CopyIsTrue, WalletsKept
<1>6. BridgesFor(w, r)
  BY <1>2 DEF BridgesFor, WalletsKept, PayoutInv, BridgeFacts
<1>7. /\ payee' \in [Payee -> WalletRecord]
      /\ \A i \in Payee : payee'[i].status = "paid" \/ payee'[i].receipt = "sent" => FirstCharged(i)
      /\ r.pc \notin AfterCharge
      /\ setting' = setting /\ payPass' = payPass /\ payCharge' = payCharge
      /\ payoutSent' = payoutSent
  BY <1>2 DEF WalletsKept, BooksKept, AfterCharge
<1> QED BY <1>2, <1>3, <1>5, <1>6, <1>7, PayoutKept

\* The records of a worker that has nothing in hand.
LEMMA RestFits ==
  ASSUME PayoutInv, NEW w \in PayoutWorker
  PROVE  /\ CrewFits(w, IdlePayoutWorker)
         /\ IdlePayoutWorker.pc = "idle" /\ IdlePayoutWorker.cycle = 1
         /\ w \in PayWorker /\ w \in setting.crew =>
               CrewFits(w, [IdlePayoutWorker EXCEPT !.pc = "finalize"])
         /\ [IdlePayoutWorker EXCEPT !.pc = "finalize"].pc = "finalize"
         /\ [IdlePayoutWorker EXCEPT !.pc = "finalize"].cycle = 1
<1>1. 1 \in PayoutCycle /\ 1 \in 1..(Len(setting.rails) + 1)
  BY FirstCycle, PayeeFacts
<1> QED BY <1>1 DEF CrewFits, IdlePayoutWorker, CrewRecord, CrewStep, FailureCodes, Handling,
           AfterCharge, PayingOnly

\* Worker w lets go of the pass, or goes on to finish its cycle.
LEMMA WorkerRests ==
  ASSUME PayoutInv, BooksKept, WalletsKept, NEW w \in PayoutWorker, NEW r, PayNow(w, r),
         \/ r = IdlePayoutWorker
         \/ /\ r = [IdlePayoutWorker EXCEPT !.pc = "finalize"]
            /\ w \in PayWorker /\ w \in setting.crew,
         crew[w].pc \notin {"settled", "record"} \/ setting.stops
  PROVE  PayoutInv'
<1>1. CrewFits(w, r) /\ r.pc \in {"idle", "finalize"} /\ r.cycle = 1
  BY RestFits
<1>2. SettlesFor(w, r)
  BY <1>1 DEF SettlesFor, WalletsKept, OnePayer
<1>3. BridgesFor(w, r)
  BY <1>1 DEF BridgesFor, WalletsKept, OneWorker
<1>4. /\ payee' \in [Payee -> WalletRecord]
      /\ \A i \in Payee : payee'[i].status = "paid" \/ payee'[i].receipt = "sent" => FirstCharged(i)
      /\ r.pc \notin AfterCharge /\ ~(r.cycle > 1 \/ r.pc = "advance")
      /\ setting' = setting /\ payPass' = payPass /\ payCharge' = payCharge
      /\ payoutSent' = payoutSent
  BY <1>1 DEF WalletsKept, BooksKept, AfterCharge
<1> QED BY <1>1, <1>2, <1>3, <1>4, PayoutKept

\* What worker w has in hand.
LEMMA InHand ==
  ASSUME PayoutInv, NEW w \in PayoutWorker
  PROVE  /\ crew[w] \in CrewRecord
         /\ crew[w].pc \in Handling => /\ crew[w].i \in crew[w].todo /\ crew[w].i \in Payee
                                       /\ payee[crew[w].i] \in WalletRecord
         /\ crew[w].pc # "idle" => w \in setting.crew
BY DEF PayoutInv, PayoutTyped, CrewFacts, CrewRecord, Handling

\* The record of worker w with another step.
GoneTo(w, r, s) ==
    /\ r \in CrewRecord /\ r.pc = s /\ r.i = crew[w].i /\ r.todo = crew[w].todo
    /\ r.settled = crew[w].settled /\ r.cycle = crew[w].cycle

\* A worker that goes to another step of its recipient keeps the rest of its record.
LEMMA GoTyped ==
  ASSUME PayoutInv, NEW w \in PayoutWorker, NEW s \in CrewStep
  PROVE  GoneTo(w, [crew[w] EXCEPT !.pc = s], s)
BY InHand DEF GoneTo, CrewRecord

\* So does one whose payment failed.
LEMMA FailTyped ==
  ASSUME PayoutInv, NEW w \in PayoutWorker, NEW code \in FailureCodes
  PROVE  GoneTo(w, [crew[w] EXCEPT !.pc = "fail", !.code = code], "fail")
<1>1. "fail" \in CrewStep
  BY DEF CrewStep, Handling
<1> QED BY <1>1, InHand DEF GoneTo, CrewRecord

\* Worker w goes on to step s of its recipient and may write it.
LEMMA WorkerGoesTo ==
  ASSUME PayoutInv, BooksKept, WalletsKept, NEW w \in PayoutWorker, NEW r, NEW s \in Handling,
         GoneTo(w, r, s), PayNow(w, r),
         \/ crew[w].pc \in Handling
         \/ crew[w].pc = "next" /\ crew[w].i \in crew[w].todo,
         crew[w].pc # "settled", s # "record",
         s \in PayingOnly => w \in PayWorker,
         s \in AfterCharge => FirstCharged(crew[w].i),
         crew[w].pc \in AfterSettling => s \in AfterSettling,
         crew[w].pc = "record" /\ crew[w].kind = "bridge" => payee'[crew[w].i].bridge
  PROVE  PayoutInv'
<1>1. crew[w].pc \in Handling \cup {"next"} /\ crew[w].i \in crew[w].todo
  BY InHand
<1>2. r \in CrewRecord /\ r.pc = s /\ r.i = crew[w].i /\ r.todo = crew[w].todo
      /\ r.settled = crew[w].settled /\ r.cycle = crew[w].cycle
  BY DEF GoneTo
<1> QED BY <1>1, <1>2, WorkerGoesOn

\* The steps of the workers that have no name of their own below.
LEMMA CrewSteps ==
  /\ Handling \subseteq CrewStep /\ AfterCharge \subseteq Handling
  /\ AfterSettling \subseteq AfterCharge /\ AfterCharge \subseteq PayingOnly
  /\ "liquidity" \in Handling /\ "record" \in Handling /\ "ready" \in Handling
  /\ "fail" \in Handling /\ "pay" \in Handling /\ "pay" \in PayingOnly
  /\ {"idle", "next", "finalize", "advance", "liquidity", "record", "ready", "fail", "pay"}
        \cap AfterCharge = {}
  /\ {"liquidity", "record", "ready", "fail", "next"} \cap PayingOnly = {}
  /\ {"settle", "settled", "paid", "receipt"} = AfterCharge
  /\ {"paid", "receipt"} = AfterSettling
  /\ "settle" \notin AfterSettling /\ "settled" \notin AfterSettling
  /\ "finalize" \in PayingOnly /\ "advance" \in PayingOnly
BY DEF Handling, AfterCharge, AfterSettling, PayingOnly, CrewStep

\* The liquidity steps that send nothing keep the invariant.
LEMMA LiquidityKeeps ==
  ASSUME PayoutInv, setting' = setting, NEW w \in PayoutWorker,
         LiquidityFails(w) \/ LiquidityReady(w) \/ LiquidityPending(w) \/ RecordLiquidity(w)
  PROVE  PayoutInv'
<1>1. BooksKept
  BY DEF BooksKept, LiquidityFails, LiquidityReady, LiquidityPending, RecordLiquidity
<1>2. CASE LiquidityFails(w) \/ LiquidityPending(w)
  <2>1. PICK code \in FailureCodes : PayNow(w, [crew[w] EXCEPT !.pc = "fail", !.code = code])
    BY <1>2 DEF LiquidityFails, LiquidityPending, PayFails, FailureCodes
  <2>2. crew[w].pc = "liquidity" /\ payee' = payee
    BY <1>2 DEF LiquidityFails, LiquidityPending, PayAt
  <2>3. WalletsKept
    BY <2>2, WalletsSame
  <2> QED BY <1>1, <2>1, <2>2, <2>3, FailTyped, WorkerGoesTo, CrewSteps
<1>3. CASE LiquidityReady(w)
  <2>1. PICK s \in {"pay", "ready"} : /\ PayNow(w, [crew[w] EXCEPT !.pc = s])
                                      /\ s = "pay" => w \in PayWorker
    BY <1>3 DEF LiquidityReady, PayGo
  <2>2. crew[w].pc = "liquidity" /\ payee' = payee
    BY <1>3 DEF LiquidityReady, PayAt
  <2>3. WalletsKept
    BY <2>2, WalletsSame
  <2>4. s \in Handling /\ s \in CrewStep /\ s \notin AfterCharge /\ s # "record"
        /\ (s \in PayingOnly => w \in PayWorker)
    BY <2>1, CrewSteps
  <2> QED BY <1>1, <2>1, <2>2, <2>3, <2>4, GoTyped, WorkerGoesTo, CrewSteps
<1>4. CASE RecordLiquidity(w)
  <2>1. PICK i : i = crew[w].i
    OBVIOUS
  <2>2. PICK x : /\ x = CASE crew[w].kind = "bridge" -> [payee[i] EXCEPT !.bridge = TRUE]
                          [] crew[w].kind = "topUp" -> payee[i]
                          [] crew[w].kind = "channel" -> [payee[i] EXCEPT !.channel = TRUE]
                 /\ payee' = [payee EXCEPT ![i] = x]
    BY <1>4, <2>1 DEF RecordLiquidity, WritesPayee, PayeeOf
  <2>3. /\ crew[w].pc = "record" /\ i \in Payee /\ payee[i] \in WalletRecord
        /\ crew[w].kind \in {"bridge", "topUp", "channel"}
    <3>1. crew[w].pc = "record" /\ crew[w].pc \in Handling
      BY <1>4, CrewSteps DEF RecordLiquidity, PayAt
    <3> QED BY <2>1, <3>1, InHand DEF PayoutInv, CrewFacts, CrewRecord
  <2>4. /\ x \in WalletRecord /\ x.settlement = payee[i].settlement
        /\ payee[i].bridge => x.bridge
        /\ x.status = payee[i].status /\ x.receipt = payee[i].receipt
        /\ crew[w].kind = "bridge" => x.bridge
    <3>1. CASE crew[w].kind = "bridge"
      BY <2>2, <2>3, <3>1 DEF WalletRecord
    <3>2. CASE crew[w].kind = "topUp"
      BY <2>2, <2>3, <3>2 DEF WalletRecord
    <3>3. CASE crew[w].kind = "channel"
      BY <2>2, <2>3, <3>3 DEF WalletRecord
    <3> QED BY <2>3, <3>1, <3>2, <3>3
  <2>5. x.status = "paid" \/ x.receipt = "sent" => FirstCharged(i)
    BY <2>3, <2>4 DEF PayoutInv, ChargeFacts
  <2>6. WalletsKept
    BY <2>2, <2>3, <2>4, <2>5, WalletWritten
  <2>7. crew[w].kind = "bridge" => payee'[crew[w].i].bridge
    BY <2>1, <2>2, <2>3, <2>4 DEF PayoutInv, PayoutTyped
  <2>8. PayNow(w, [crew[w] EXCEPT !.pc = "fail", !.code = "pendingCode"])
        /\ "pendingCode" \in FailureCodes
    BY <1>4 DEF RecordLiquidity, PayFails, FailureCodes
  <2> QED BY <1>1, <2>3, <2>6, <2>7, <2>8, FailTyped, WorkerGoesTo, CrewSteps
<1> QED BY <1>2, <1>3, <1>4

\* The steps of a payment that only read keep the invariant: a recipient for whom
\* nothing is left to charge was charged in the first cycle.
LEMMA PaymentReads ==
  ASSUME PayoutInv, setting' = setting, NEW w \in PayoutWorker,
         AlreadyCharged(w) \/ SettlementFails(w) \/ KeepSettlement(w)
  PROVE  PayoutInv'
<1>1. BooksKept /\ payee' = payee
  BY DEF BooksKept, AlreadyCharged, SettlementFails, KeepSettlement
<1>2. WalletsKept
  BY <1>1, WalletsSame
<1>3. CASE AlreadyCharged(w)
  <2>1. /\ crew[w].pc = "pay" /\ PayNow(w, [crew[w] EXCEPT !.pc = "settle"])
        /\ SucceededBefore(crew[w].i)
    BY <1>3 DEF AlreadyCharged, PayAt, PayGo, NothingLeftToCharge, PayeeOf
  <2>2. crew[w].i \in Payee /\ w \in PayWorker
    BY <2>1, CrewSteps, InHand DEF PayoutInv, CrewFacts
  <2>3. FirstCharged(crew[w].i)
    BY <2>1, <2>2 DEF SucceededBefore, PayoutInv, ChargeFacts
  <2> QED BY <1>1, <1>2, <2>1, <2>2, <2>3, GoTyped, WorkerGoesTo, CrewSteps
<1>4. CASE SettlementFails(w)
  <2>1. PICK code \in FailureCodes : PayNow(w, [crew[w] EXCEPT !.pc = "fail", !.code = code])
    BY <1>4 DEF SettlementFails, PayFails, FailureCodes
  <2>2. crew[w].pc = "settle"
    BY <1>4 DEF SettlementFails, PayAt
  <2> QED BY <1>1, <1>2, <2>1, <2>2, FailTyped, WorkerGoesTo, CrewSteps
<1>5. CASE KeepSettlement(w)
  <2>1. crew[w].pc = "settle" /\ PayNow(w, [crew[w] EXCEPT !.pc = "paid"])
    BY <1>5 DEF KeepSettlement, PayAt, PayGo
  <2>2. FirstCharged(crew[w].i) /\ w \in PayWorker
    BY <2>1, CrewSteps DEF PayoutInv, ChargeFacts, CrewFacts
  <2> QED BY <1>1, <1>2, <2>1, <2>2, GoTyped, WorkerGoesTo, CrewSteps
<1> QED BY <1>3, <1>4, <1>5

\* What a worker writes to its recipient, transfers aside.
LEMMA RecipientWritten ==
  ASSUME PayoutInv, NEW w \in PayoutWorker, crew[w].i \in Payee, NEW x,
         WritesPayee(w, x), x \in WalletRecord,
         x.settlement = payee[crew[w].i].settlement, x.bridge = payee[crew[w].i].bridge,
         x.status = "paid" => FirstCharged(crew[w].i),
         x.receipt = "sent" => x.receipt = payee[crew[w].i].receipt \/ FirstCharged(crew[w].i)
  PROVE  WalletsKept
<1>1. PICK i \in Payee : i = crew[w].i
  OBVIOUS
<1>2. payee' = [payee EXCEPT ![i] = x]
  BY <1>1 DEF WritesPayee, PayeeOf
<1>3. x.status = "paid" \/ x.receipt = "sent" => FirstCharged(i)
  BY <1>1 DEF PayoutInv, ChargeFacts
<1> QED BY <1>1, <1>2, <1>3, WalletWritten

\* The claim of a recipient and the start of its preparation.
LEMMA HandlingStarts ==
  ASSUME PayoutInv, setting' = setting, NEW w \in PayoutWorker,
         ClaimRecipientWalletForPayout(w) \/ PrepareRecipient(w)
  PROVE  PayoutInv'
<1>1. /\ BooksKept /\ crew[w].pc = "next" /\ crew[w].i \in crew[w].todo
      /\ PayNow(w, [crew[w] EXCEPT !.pc = "liquidity"])
  BY DEF BooksKept, ClaimRecipientWalletForPayout, PrepareRecipient, PayAt, PayeeOf, PayGo
<1>2. crew[w].i \in Payee /\ payee[crew[w].i] \in WalletRecord
  BY <1>1 DEF PayoutInv, PayoutTyped, CrewRecord
<1>3. WalletsKept
  <2>1. CASE PrepareRecipient(w)
    BY <2>1, WalletsSame DEF PrepareRecipient
  <2>2. CASE ClaimRecipientWalletForPayout(w)
    <3>1. PICK x : x = [payee[crew[w].i] EXCEPT !.status = "processing", !.code = "none",
                                                !.old = FALSE]
                   /\ WritesPayee(w, x)
      BY <2>2 DEF ClaimRecipientWalletForPayout, PayeeOf
    <3>2. /\ x \in WalletRecord /\ x.settlement = payee[crew[w].i].settlement
          /\ x.bridge = payee[crew[w].i].bridge /\ x.status = "processing"
          /\ x.receipt = payee[crew[w].i].receipt
      BY <1>2, <3>1 DEF WalletRecord, FailureCodes
    <3> QED BY <1>2, <3>1, <3>2, RecipientWritten
  <2> QED BY <2>1, <2>2
<1> QED BY <1>1, <1>3, GoTyped, WorkerGoesTo, CrewSteps

\* The recipient that is marked paid, and its receipt, were charged.
LEMMA PaidKeeps ==
  ASSUME PayoutInv, setting' = setting, NEW w \in PayoutWorker,
         MarkRecipientWalletPaid(w) \/ SendPayoutReceiptIfNeeded(w)
  PROVE  PayoutInv'
<1>1. BooksKept /\ crew[w].pc \in {"paid", "receipt"}
  BY DEF BooksKept, MarkRecipientWalletPaid, SendPayoutReceiptIfNeeded, PayAt
<1>2. /\ crew[w].i \in Payee /\ payee[crew[w].i] \in WalletRecord /\ w \in PayWorker
      /\ FirstCharged(crew[w].i)
  BY <1>1, CrewSteps, InHand DEF PayoutInv, CrewFacts, ChargeFacts
<1>3. CASE MarkRecipientWalletPaid(w)
  <2>1. PICK x : x = [payee[crew[w].i] EXCEPT !.status = "paid", !.code = "none", !.old = TRUE]
                 /\ WritesPayee(w, x)
    BY <1>3 DEF MarkRecipientWalletPaid, PayeeOf
  <2>2. /\ x \in WalletRecord /\ x.settlement = payee[crew[w].i].settlement
        /\ x.bridge = payee[crew[w].i].bridge
    BY <1>2, <2>1 DEF WalletRecord, FailureCodes
  <2>3. WalletsKept
    BY <1>2, <2>1, <2>2, RecipientWritten
  <2>4. crew[w].pc = "paid" /\ PayNow(w, [crew[w] EXCEPT !.pc = "receipt"])
    BY <1>3 DEF MarkRecipientWalletPaid, PayAt, PayGo
  <2> QED BY <1>1, <1>2, <2>3, <2>4, GoTyped, WorkerGoesTo, CrewSteps
<1>4. CASE SendPayoutReceiptIfNeeded(w)
  <2>1. PICK outcome \in {"sent", "failed"} :
           WritesPayee(w, [payee[crew[w].i] EXCEPT !.receipt = outcome])
    BY <1>4 DEF SendPayoutReceiptIfNeeded, PayeeOf
  <2>2. PICK x : x = [payee[crew[w].i] EXCEPT !.receipt = outcome] /\ WritesPayee(w, x)
    BY <2>1
  <2>3. /\ x \in WalletRecord /\ x.settlement = payee[crew[w].i].settlement
        /\ x.bridge = payee[crew[w].i].bridge
    BY <1>2, <2>2 DEF WalletRecord
  <2>4. WalletsKept
    BY <1>2, <2>2, <2>3, RecipientWritten
  <2>5. crew[w].pc = "receipt" /\ PayNow(w, NextRecipient(w))
    BY <1>4 DEF SendPayoutReceiptIfNeeded, PayAt
  <2> QED BY <1>1, <1>2, <2>4, <2>5, WorkerNext
<1> QED BY <1>3, <1>4

\* A failure is written and the worker goes on or lets go.
LEMMA FailureKeeps ==
  ASSUME PayoutInv, setting' = setting, NEW w \in PayoutWorker,
         \/ MarkRecipientWalletFailure(w) \/ MarkRecipientWalletLiquidityPreparationFailure(w)
         \/ ClearRecipientWalletFailure(w)
  PROVE  PayoutInv'
<1>1. BooksKept /\ crew[w].pc \in {"fail", "ready"}
  BY DEF BooksKept, MarkRecipientWalletFailure, MarkRecipientWalletLiquidityPreparationFailure,
     ClearRecipientWalletFailure, PayAt
<1>2. /\ crew[w].i \in Payee /\ payee[crew[w].i] \in WalletRecord /\ w \in setting.crew
      /\ crew[w].code \in FailureCodes
  BY <1>1, CrewSteps, InHand DEF CrewRecord
<1>3. WalletsKept
  <2>1. PICK x : /\ WritesPayee(w, x)
                 /\ \/ \E s \in {"processing", "pending", "failed"} :
                          x = [payee[crew[w].i] EXCEPT !.status = s, !.code = crew[w].code,
                                                       !.old = FALSE]
                    \/ x = [payee[crew[w].i] EXCEPT !.code = "none"]
    BY DEF MarkRecipientWalletFailure, MarkRecipientWalletLiquidityPreparationFailure,
           ClearRecipientWalletFailure, PayeeOf
  <2>2. /\ x \in WalletRecord /\ x.settlement = payee[crew[w].i].settlement
        /\ x.bridge = payee[crew[w].i].bridge /\ x.receipt = payee[crew[w].i].receipt
        /\ x.status = "paid" => payee[crew[w].i].status = "paid"
    <3>1. ASSUME NEW s \in {"processing", "pending", "failed"},
                 x = [payee[crew[w].i] EXCEPT !.status = s, !.code = crew[w].code, !.old = FALSE]
          PROVE  /\ x \in WalletRecord /\ x.settlement = payee[crew[w].i].settlement
                 /\ x.bridge = payee[crew[w].i].bridge /\ x.receipt = payee[crew[w].i].receipt
                 /\ x.status # "paid"
      BY <1>2, <3>1 DEF WalletRecord
    <3>2. CASE x = [payee[crew[w].i] EXCEPT !.code = "none"]
      BY <1>2, <3>2 DEF WalletRecord, FailureCodes
    <3> QED BY <2>1, <3>1, <3>2
  <2>3. x.status = "paid" => FirstCharged(crew[w].i)
    BY <1>2, <2>2 DEF PayoutInv, ChargeFacts
  <2> QED BY <1>2, <2>1, <2>2, <2>3, RecipientWritten
<1>4. \/ PayNow(w, NextRecipient(w)) \/ PayNow(w, IdlePayoutWorker)
      \/ w \in PayWorker /\ PayNow(w, [IdlePayoutWorker EXCEPT !.pc = "finalize"])
  BY DEF MarkRecipientWalletFailure, MarkRecipientWalletLiquidityPreparationFailure,
         ClearRecipientWalletFailure
<1>5. CASE PayNow(w, NextRecipient(w))
  BY <1>1, <1>2, <1>3, <1>5, WorkerNext
<1>6. CASE PayNow(w, IdlePayoutWorker)
  BY <1>1, <1>3, <1>6, WorkerRests
<1>7. CASE w \in PayWorker /\ PayNow(w, [IdlePayoutWorker EXCEPT !.pc = "finalize"])
  BY <1>1, <1>2, <1>3, <1>7, WorkerRests
<1> QED BY <1>4, <1>5, <1>6, <1>7

\* The settlement that was sent is recorded.
LEMMA SettlementRecorded ==
  ASSUME PayoutInv, setting' = setting, NEW w \in PayoutWorker, RecordSettlement(w)
  PROVE  PayoutInv'
<1>1. PICK i : i = crew[w].i
  OBVIOUS
<1>2. PICK r : r = [crew[w] EXCEPT !.pc = "paid"]
  OBVIOUS
<1>3. /\ crew[w].pc = "settled" /\ PayNow(w, r)
      /\ payee' = [payee EXCEPT ![i] = [payee[i] EXCEPT !.settlement = TRUE]]
      /\ payPass' = payPass /\ payCharge' = payCharge /\ payoutSent' = payoutSent
  BY <1>1, <1>2 DEF RecordSettlement, PayAt, PayGo, WritesPayee, PayeeOf
<1>4. /\ i \in Payee /\ payee[i] \in WalletRecord /\ w \in PayWorker /\ w \in setting.crew
      /\ FirstCharged(i) /\ i \in crew[w].todo /\ Busy(w)
      /\ payee \in [Payee -> WalletRecord]
  BY <1>1, <1>3, CrewSteps, InHand DEF PayoutInv, PayoutTyped, CrewFacts, ChargeFacts, Busy
<1>5. GoneTo(w, r, "paid")
  BY <1>2, GoTyped, CrewSteps
<1>6. /\ r \in CrewRecord /\ r.pc = "paid" /\ r.i = i /\ r.todo = crew[w].todo
      /\ r.settled = crew[w].settled /\ r.cycle = crew[w].cycle
  BY <1>1, <1>5 DEF GoneTo
<1>7. /\ payee' \in [Payee -> WalletRecord] /\ payee'[i].settlement
      /\ payee'[i].bridge = payee[i].bridge /\ payee'[i].status = payee[i].status
      /\ payee'[i].receipt = payee[i].receipt
      /\ \A j \in Payee \ {i} : payee'[j] = payee[j]
  BY <1>3, <1>4 DEF WalletRecord
<1>8. CrewFits(w, r)
  BY <1>4, <1>6, CrewSteps DEF CrewFits
<1>9. r.cycle > 1 \/ r.pc = "advance" => AllFirstCharged
  BY <1>6 DEF PayoutInv, ChargeFacts
<1>10. \A j \in Payee : payee'[j].status = "paid" \/ payee'[j].receipt = "sent" => FirstCharged(j)
  BY <1>4, <1>7 DEF PayoutInv, ChargeFacts
<1>11. SettlesFor(w, r)
  <2> SUFFICES ASSUME OnePayer
               PROVE  /\ r.cycle = payPass.cycle
                      /\ \A j \in r.todo : payee'[j].settlement => j \in r.settled \/ j = i
    BY <1>1, <1>3, <1>6, <1>7, CrewSteps DEF SettlesFor
  <2>1. crew[w].cycle = payPass.cycle /\ CopyIsTrue(w)
    BY <1>4 DEF PayoutInv, SettleFacts
  <2>2. \A j \in r.todo : j \in Payee
    BY <1>6 DEF CrewRecord
  <2> QED BY <1>1, <1>6, <1>7, <2>1, <2>2 DEF CopyIsTrue
<1>12. BridgesFor(w, r)
  BY <1>3, <1>4, <1>6, <1>7 DEF BridgesFor, PayoutInv, BridgeFacts
<1> QED BY <1>3, <1>4, <1>6, <1>7, <1>8, <1>9, <1>10, <1>11, <1>12, PayoutKept

\* A scan starts with a true copy of the recipients.
LEMMA ScanKeeps ==
  ASSUME PayoutInv, setting' = setting, NEW w \in PayoutWorker, ScanDue(w)
  PROVE  PayoutInv'
<1>1. PICK T \in SUBSET Payee, S \in SUBSET Payee :
         T = Todo(w) /\ S = {i \in T : payee[i].settlement}
  BY DEF Todo
<1>2. PICK r : /\ r = [IdlePayoutWorker EXCEPT !.pc = "next", !.todo = T, !.settled = S,
                                               !.cycle = payPass.cycle]
               /\ PayNow(w, r)
  BY <1>1 DEF ScanDue
<1>3. /\ w \in setting.crew /\ crew[w].pc = "idle" /\ payPass' = payPass /\ payee' = payee
      /\ payCharge' = payCharge /\ payoutSent' = payoutSent
  BY DEF ScanDue, PayAt
<1>4. 1 \in 1..(Len(setting.rails) + 1) /\ payPass.cycle \in PayoutCycle
  BY PayeeFacts DEF PayoutInv, PayoutTyped
<1>5. /\ r \in CrewRecord /\ r.pc = "next" /\ r.todo = T /\ r.settled = S
      /\ r.cycle = payPass.cycle
  BY <1>2, <1>4 DEF IdlePayoutWorker, CrewRecord, CrewStep, FailureCodes
<1>6. CrewFits(w, r)
  BY <1>3, <1>5 DEF CrewFits, Handling, AfterCharge, PayingOnly
<1>7. r.cycle > 1 \/ r.pc = "advance" => AllFirstCharged
  BY <1>5 DEF PayoutInv, ChargeFacts
<1>8. SettlesFor(w, r)
  BY <1>1, <1>3, <1>5 DEF SettlesFor
<1>9. BridgesFor(w, r)
  BY <1>3, <1>5 DEF BridgesFor
<1>10. /\ payee' \in [Payee -> WalletRecord] /\ r.pc \notin AfterCharge
       /\ \A i \in Payee :
             payee'[i].status = "paid" \/ payee'[i].receipt = "sent" => FirstCharged(i)
  BY <1>3, <1>5, CrewSteps DEF PayoutInv, PayoutTyped, ChargeFacts
<1> QED BY <1>2, <1>3, <1>6, <1>7, <1>8, <1>9, <1>10, PayoutKept

\* The loops skip a recipient, end, or are stopped.
LEMMA LoopKeeps ==
  ASSUME PayoutInv, setting' = setting, NEW w \in PayoutWorker,
         LoopEnds(w) \/ SkipRecipient(w) \/ WorkerStops(w)
  PROVE  PayoutInv'
<1>1. BooksKept /\ payee' = payee
  BY DEF BooksKept, LoopEnds, SkipRecipient, WorkerStops
<1>2. WalletsKept
  BY <1>1, WalletsSame
<1>3. CASE LoopEnds(w)
  <2>1. crew[w].pc = "next" /\ w \in setting.crew
    BY <1>3, InHand DEF LoopEnds, PayAt
  <2>2. \/ w \in PayWorker /\ PayNow(w, [IdlePayoutWorker EXCEPT !.pc = "finalize"])
        \/ PayNow(w, IdlePayoutWorker)
    BY <1>3 DEF LoopEnds
  <2>3. CASE PayNow(w, IdlePayoutWorker)
    BY <1>1, <1>2, <2>1, <2>3, WorkerRests
  <2>4. CASE w \in PayWorker /\ PayNow(w, [IdlePayoutWorker EXCEPT !.pc = "finalize"])
    BY <1>1, <1>2, <2>1, <2>4, WorkerRests
  <2> QED BY <2>2, <2>3, <2>4
<1>4. CASE SkipRecipient(w)
  <2>1. crew[w].pc = "next" /\ crew[w].i \in Payee /\ PayNow(w, NextRecipient(w))
    BY <1>4 DEF SkipRecipient, PayAt, PayeeOf
  <2> QED BY <1>1, <1>2, <2>1, WorkerNext
<1>5. CASE WorkerStops(w)
  BY <1>1, <1>2, <1>5, WorkerRests DEF WorkerStops
<1> QED BY <1>3, <1>4, <1>5

\* A cycle is about to end only when every recipient is paid.
LEMMA FinalizeKeeps ==
  ASSUME PayoutInv, setting' = setting, NEW w \in PayoutWorker, FinalizeReads(w)
  PROVE  PayoutInv'
<1>1. BooksKept /\ payee' = payee /\ crew[w].pc = "finalize"
  BY DEF BooksKept, FinalizeReads, PayAt
<1>2. w \in PayWorker /\ w \in setting.crew /\ WalletsKept
  BY <1>1, InHand, CrewSteps, WalletsSame DEF PayoutInv, CrewFacts
<1>3. CASE PayNow(w, IdlePayoutWorker)
  BY <1>1, <1>2, <1>3, WorkerRests
<1>4. CASE AllPayeesPaid
           /\ PayNow(w, [IdlePayoutWorker EXCEPT !.pc = "advance", !.cycle = payPass.cycle])
  <2>1. PICK r : /\ r = [IdlePayoutWorker EXCEPT !.pc = "advance", !.cycle = payPass.cycle]
                 /\ PayNow(w, r)
    BY <1>4
  <2>2. 1 \in 1..(Len(setting.rails) + 1) /\ payPass.cycle \in PayoutCycle
    BY PayeeFacts DEF PayoutInv, PayoutTyped
  <2>3. /\ r \in CrewRecord /\ r.pc = "advance" /\ r.todo = {} /\ r.cycle = payPass.cycle
    BY <2>1, <2>2 DEF IdlePayoutWorker, CrewRecord, CrewStep, FailureCodes
  <2>4. CrewFits(w, r)
    BY <1>2, <2>3 DEF CrewFits, Handling, AfterCharge
  <2>5. AllFirstCharged
    BY <1>4 DEF AllPayeesPaid, AllFirstCharged, PayoutInv, ChargeFacts
  <2>6. SettlesFor(w, r)
    BY <1>1, <2>3 DEF SettlesFor
  <2>7. BridgesFor(w, r)
    BY <1>1, <2>3 DEF BridgesFor
  <2>8. r.pc \notin AfterCharge /\ setting' = setting /\ payPass' = payPass
        /\ payCharge' = payCharge /\ payoutSent' = payoutSent
        /\ payee' \in [Payee -> WalletRecord]
        /\ \A i \in Payee :
              payee'[i].status = "paid" \/ payee'[i].receipt = "sent" => FirstCharged(i)
    BY <1>1, <1>2, <2>3, CrewSteps DEF BooksKept, WalletsKept
  <2> QED BY <2>1, <2>4, <2>5, <2>6, <2>7, <2>8, PayoutKept
<1> QED BY <1>3, <1>4 DEF FinalizeReads

\* A charge succeeds in the worker's cycle, which is the first or follows it.
LEMMA ChargeKeeps ==
  ASSUME PayoutInv, setting' = setting, NEW w \in PayoutWorker, ChargeRecipient(w) \/ ChargeFails(w)
  PROVE  PayoutInv'
<1>1. PICK i, n : i = crew[w].i /\ n = crew[w].cycle
  OBVIOUS
<1>2. /\ crew[w].pc = "pay" /\ payPass' = payPass /\ payee' = payee /\ payoutSent' = payoutSent
  BY DEF ChargeRecipient, ChargeFails, PayAt
<1>3. /\ i \in Payee /\ n \in PayoutCycle /\ w \in PayWorker /\ w \in setting.crew
      /\ i \in crew[w].todo /\ 1 \in PayoutCycle /\ n \in Nat /\ Busy(w)
      /\ payCharge \in [Payee \X PayoutCycle -> {"none", "failed", "succeeded"}]
  BY <1>1, <1>2, CrewSteps, InHand, FirstCycle
     DEF PayoutInv, PayoutTyped, CrewFacts, CrewRecord, Busy
<1>4. PICK o \in {"failed", "succeeded"}, s \in {"fail", "settle", "paid"}, r \in CrewRecord :
         /\ PayNow(w, r) /\ GoneTo(w, r, s)
         /\ payCharge' = [payCharge EXCEPT ![<<i, n>>] = o]
         /\ o = "failed" => payCharge[<<i, n>>] # "succeeded" /\ s = "fail"
  <2>1. CASE ChargeRecipient(w)
    <3>1. PICK s \in {"settle", "paid"} : PayNow(w, [crew[w] EXCEPT !.pc = s])
      BY <2>1 DEF ChargeRecipient, PayGo
    <3>2. payCharge' = [payCharge EXCEPT ![<<i, n>>] = "succeeded"]
      BY <1>1, <2>1 DEF ChargeRecipient, PayoutKey, PayeeOf
    <3>3. PICK r : r = [crew[w] EXCEPT !.pc = s]
      OBVIOUS
    <3>4. GoneTo(w, r, s)
      BY <3>3, GoTyped, CrewSteps
    <3>5. r \in CrewRecord /\ PayNow(w, r)
      BY <3>1, <3>3, <3>4 DEF GoneTo
    <3> QED BY <3>2, <3>4, <3>5
  <2>2. CASE ChargeFails(w)
    <3>1. PICK code \in FailureCodes : PayNow(w, [crew[w] EXCEPT !.pc = "fail", !.code = code])
      BY <2>2 DEF ChargeFails, PayFails
    <3>2. /\ payCharge' = [payCharge EXCEPT ![<<i, n>>] = "failed"]
          /\ payCharge[<<i, n>>] # "succeeded"
      BY <1>1, <2>2 DEF ChargeFails, PayoutKey, PayeeOf
    <3>3. PICK r : r = [crew[w] EXCEPT !.pc = "fail", !.code = code]
      OBVIOUS
    <3>4. GoneTo(w, r, "fail")
      BY <3>3, FailTyped
    <3>5. r \in CrewRecord /\ PayNow(w, r)
      BY <3>1, <3>3, <3>4 DEF GoneTo
    <3> QED BY <3>2, <3>4, <3>5
  <2> QED BY <2>1, <2>2
<1>5. /\ r \in CrewRecord /\ r.pc = s /\ r.i = i /\ r.todo = crew[w].todo
      /\ r.settled = crew[w].settled /\ r.cycle = n /\ s \in Handling
  BY <1>1, <1>4, CrewSteps DEF GoneTo
<1>6. CrewFits(w, r)
  BY <1>3, <1>5 DEF CrewFits
<1>7. /\ payCharge' \in [Payee \X PayoutCycle -> {"none", "failed", "succeeded"}]
      /\ payCharge'[<<i, n>>] = o
      /\ \A j \in Payee, c \in PayoutCycle :
            j # i \/ c # n => payCharge'[<<j, c>>] = payCharge[<<j, c>>]
  <2>1. <<i, n>> \in Payee \X PayoutCycle
    BY <1>3
  <2>2. \A j \in Payee, c \in PayoutCycle : <<j, c>> \in Payee \X PayoutCycle
                                           /\ (j # i \/ c # n => <<j, c>> # <<i, n>>)
    OBVIOUS
  <2> QED BY <1>3, <1>4, <2>1, <2>2
<1>8. \A j \in Payee, c \in PayoutCycle :
         payCharge[<<j, c>>] = "succeeded" => payCharge'[<<j, c>>] = "succeeded"
  BY <1>4, <1>7
<1>9. \A j \in Payee : FirstCharged(j) => FirstCharged(j)'
  BY <1>3, <1>8 DEF FirstCharged
<1>10. n > 1 => FirstCharged(i)
  BY <1>1, <1>3 DEF PayoutInv, ChargeFacts, AllFirstCharged
<1>11. o = "succeeded" => payCharge'[<<i, 1>>] = "succeeded"
  BY <1>3, <1>7, <1>9, <1>10 DEF FirstCharged, PayoutCycle
<1>12. \A j \in Payee, c \in PayoutCycle :
          payCharge'[<<j, c>>] = "succeeded" => payCharge'[<<j, 1>>] = "succeeded"
  BY <1>3, <1>7, <1>8, <1>11 DEF PayoutInv, ChargeFacts, FirstCharged
<1>13. PayoutTyped' /\ \A v \in PayoutWorker : CrewFacts(v)'
  BY <1>2, <1>4, <1>6, <1>7, CrewKept DEF PayoutInv, PayoutTyped
<1>14. ChargeFacts'
  <2>1. /\ r.cycle > 1 \/ r.pc = "advance" => AllFirstCharged
        /\ r.pc \in AfterCharge => payCharge'[<<r.i, 1>>] = "succeeded"
    BY <1>1, <1>4, <1>5, <1>11, CrewSteps DEF PayoutInv, ChargeFacts
  <2>2. /\ \A j \in Payee :
              payee'[j].status = "paid" \/ payee'[j].receipt = "sent" => FirstCharged(j)
        /\ \A j \in Payee, c \in PayoutCycle :
              payoutSent'[j].settlement[c].sent > 0 => FirstCharged(j)
        /\ payPass'.cycle > 1 \/ payPass'.status = "settled" => AllFirstCharged
        /\ ~setting.recurring => payPass'.cycle = 1
    BY <1>2 DEF PayoutInv, ChargeFacts
  <2> QED BY <1>4, <1>5, <1>9, <1>12, <2>1, <2>2, ChargesKept
<1>15. SettlesFor(w, r)
  <2> SUFFICES ASSUME OnePayer
               PROVE  /\ r.cycle = payPass.cycle
                      /\ \A j \in r.todo : payee[j].settlement => j \in r.settled
    BY <1>2 DEF SettlesFor
  <2>1. crew[w].cycle = payPass.cycle /\ CopyIsTrue(w)
    BY <1>3 DEF PayoutInv, SettleFacts
  <2> QED BY <1>1, <1>2, <1>5, <2>1, CrewSteps DEF CopyIsTrue
<1>16. BridgesFor(w, r)
  BY <1>1, <1>2, <1>3, <1>5 DEF BridgesFor, PayoutInv, BridgeFacts
<1>17. SettleFacts' /\ BridgeFacts'
  BY <1>2, <1>4, <1>15, <1>16, SettlesKept, BridgesKept
<1> QED BY <1>13, <1>14, <1>17 DEF PayoutInv

\* A transfer that is sent while the answers of all before it are lost is one more than
\* those; it is counted in its own cycle only.
LEMMA SendCounted ==
  ASSUME NEW t \in TransferRecord
  PROVE  /\ CountedSend(t) \in TransferRecord
         /\ ~Outstanding(t) => ResentForAnswers(CountedSend(t))
<1>1. PICK k \in Nat : k = IF t.sent < MaxSent THEN t.sent + 1 ELSE t.sent
  BY DEF TransferRecord
<1>2. CountedSend(t) = [t EXCEPT !.sent = k]
  BY <1>1 DEF CountedSend, TransferRecord
<1>3. /\ CountedSend(t) \in TransferRecord /\ CountedSend(t).sent = k
      /\ CountedSend(t).unheard = t.unheard
  BY <1>2 DEF TransferRecord
<1>4. k <= t.sent + 1 /\ t.sent \in Nat /\ t.unheard \in Nat
  BY <1>1 DEF TransferRecord
<1> QED BY <1>3, <1>4 DEF Outstanding, ResentForAnswers

\* With a lost answer more, nothing that was sent is outstanding.
LEMMA LossCounted ==
  ASSUME NEW t \in TransferRecord
  PROVE  /\ Unheard(t) \in TransferRecord
         /\ ResentForAnswers(t) =>
               ResentForAnswers(Unheard(t)) /\ ~Outstanding(Unheard(t))
<1>1. t.sent \in Nat /\ t.unheard \in Nat
  BY DEF TransferRecord
<1>2. /\ Unheard(t) \in TransferRecord /\ Unheard(t).sent = t.sent
      /\ Unheard(t).unheard = t.unheard + 1
  BY <1>1 DEF Unheard, TransferRecord
<1> QED BY <1>1, <1>2 DEF Outstanding, ResentForAnswers

\* What was sent, with another count of recipient i in cycle n.
WithSettlement(i, n, q) == [payoutSent EXCEPT ![i].settlement[n] = q]
WithBridge(i, n, q) == [payoutSent EXCEPT ![i].bridge[n] = q]

\* Counting a settlement or a lost answer changes one count of one recipient.
LEMMA SettlementCounted ==
  ASSUME PayoutInv, NEW i \in Payee, NEW n \in PayoutCycle, NEW q \in TransferRecord,
         payoutSent' = WithSettlement(i, n, q)
  PROVE  /\ payoutSent' \in [Payee -> SentRecord] /\ payoutSent'[i].settlement[n] = q
         /\ \A j \in Payee : payoutSent'[j].bridge = payoutSent[j].bridge
         /\ \A j \in Payee, c \in PayoutCycle :
               j # i \/ c # n => payoutSent'[j].settlement[c] = payoutSent[j].settlement[c]
<1>1. payoutSent \in [Payee -> SentRecord] /\ payoutSent[i] \in SentRecord
  BY DEF PayoutInv, PayoutTyped
<1>2. PICK m \in [PayoutCycle -> TransferRecord] : m = [payoutSent[i].settlement EXCEPT ![n] = q]
  BY <1>1 DEF SentRecord
<1>3. m[n] = q /\ \A c \in PayoutCycle \ {n} : m[c] = payoutSent[i].settlement[c]
  BY <1>1, <1>2 DEF SentRecord
<1>4. PICK y : y = [payoutSent[i] EXCEPT !.settlement = m]
  OBVIOUS
<1>5. y \in SentRecord /\ y.settlement = m /\ y.bridge = payoutSent[i].bridge
  BY <1>1, <1>2, <1>4 DEF SentRecord
<1>6. payoutSent' = [payoutSent EXCEPT ![i] = y]
  BY <1>1, <1>2, <1>4 DEF SentRecord, WithSettlement
<1>7. /\ payoutSent'[i] = y /\ \A j \in Payee \ {i} : payoutSent'[j] = payoutSent[j]
      /\ payoutSent' \in [Payee -> SentRecord]
  BY <1>1, <1>5, <1>6
<1>8. \A j \in Payee : payoutSent'[j].bridge = payoutSent[j].bridge
  BY <1>5, <1>7
<1>9. ASSUME NEW j \in Payee, NEW c \in PayoutCycle, j # i \/ c # n
      PROVE  payoutSent'[j].settlement[c] = payoutSent[j].settlement[c]
  <2>1. CASE j = i
    BY <1>3, <1>5, <1>7, <1>9, <2>1
  <2>2. CASE j # i
    BY <1>7, <2>2
  <2> QED BY <2>1, <2>2
<1>10. payoutSent'[i].settlement[n] = q
  BY <1>3, <1>5, <1>7
<1> QED BY <1>7, <1>8, <1>9, <1>10

\* The same for a bridge transfer.
LEMMA BridgeCounted ==
  ASSUME PayoutInv, NEW i \in Payee, NEW n \in PayoutCycle, NEW q \in TransferRecord,
         payoutSent' = WithBridge(i, n, q)
  PROVE  /\ payoutSent' \in [Payee -> SentRecord] /\ payoutSent'[i].bridge[n] = q
         /\ \A j \in Payee : payoutSent'[j].settlement = payoutSent[j].settlement
         /\ \A j \in Payee, c \in PayoutCycle :
               j # i \/ c # n => payoutSent'[j].bridge[c] = payoutSent[j].bridge[c]
<1>1. payoutSent \in [Payee -> SentRecord] /\ payoutSent[i] \in SentRecord
  BY DEF PayoutInv, PayoutTyped
<1>2. PICK m \in [PayoutCycle -> TransferRecord] : m = [payoutSent[i].bridge EXCEPT ![n] = q]
  BY <1>1 DEF SentRecord
<1>3. m[n] = q /\ \A c \in PayoutCycle \ {n} : m[c] = payoutSent[i].bridge[c]
  BY <1>1, <1>2 DEF SentRecord
<1>4. PICK y : y = [payoutSent[i] EXCEPT !.bridge = m]
  OBVIOUS
<1>5. y \in SentRecord /\ y.bridge = m /\ y.settlement = payoutSent[i].settlement
  BY <1>1, <1>2, <1>4 DEF SentRecord
<1>6. payoutSent' = [payoutSent EXCEPT ![i] = y]
  BY <1>1, <1>2, <1>4 DEF SentRecord, WithBridge
<1>7. /\ payoutSent'[i] = y /\ \A j \in Payee \ {i} : payoutSent'[j] = payoutSent[j]
      /\ payoutSent' \in [Payee -> SentRecord]
  BY <1>1, <1>5, <1>6
<1>8. \A j \in Payee : payoutSent'[j].settlement = payoutSent[j].settlement
  BY <1>5, <1>7
<1>9. ASSUME NEW j \in Payee, NEW c \in PayoutCycle, j # i \/ c # n
      PROVE  payoutSent'[j].bridge[c] = payoutSent[j].bridge[c]
  <2>1. CASE j = i
    BY <1>3, <1>5, <1>7, <1>9, <2>1
  <2>2. CASE j # i
    BY <1>7, <2>2
  <2> QED BY <2>1, <2>2
<1>10. payoutSent'[i].bridge[n] = q
  BY <1>3, <1>5, <1>7
<1> QED BY <1>7, <1>8, <1>9, <1>10

\* executeFiberExitCkbSettlement: where one payout worker runs, its copy has every
\* settlement there is, so it sends one only if there is none.
LEMMA SettlementSent ==
  ASSUME PayoutInv, setting' = setting, NEW w \in PayoutWorker, SendSettlement(w)
  PROVE  PayoutInv'
<1>1. PICK i, n : i = crew[w].i /\ n = crew[w].cycle
  OBVIOUS
<1>2. PICK r : r = [crew[w] EXCEPT !.pc = "settled"]
  OBVIOUS
<1>3. /\ crew[w].pc = "settle" /\ i \notin crew[w].settled /\ PayNow(w, r)
      /\ payoutSent' = [payoutSent EXCEPT ![i].settlement[n] = CountedSend(@)]
      /\ payPass' = payPass /\ payee' = payee /\ payCharge' = payCharge
  BY <1>1, <1>2 DEF SendSettlement, PayAt, PayGo, HasSettlement, PayeeOf
<1>4. /\ i \in Payee /\ i \in crew[w].todo /\ w \in PayWorker /\ w \in setting.crew
      /\ FirstCharged(i) /\ Busy(w) /\ n \in PayoutCycle
      /\ crew \in [PayoutWorker -> CrewRecord]
  BY <1>1, <1>3, CrewSteps, InHand
     DEF PayoutInv, PayoutTyped, CrewFacts, ChargeFacts, Busy, CrewRecord
<1>5. GoneTo(w, r, "settled")
  BY <1>2, GoTyped, CrewSteps
<1>6. /\ r \in CrewRecord /\ r.pc = "settled" /\ r.i = i /\ r.todo = crew[w].todo
      /\ r.settled = crew[w].settled /\ r.cycle = n
  BY <1>1, <1>5 DEF GoneTo
<1>7. CrewFits(w, r)
  BY <1>4, <1>6, CrewSteps DEF CrewFits
<1>8. /\ payoutSent' \in [Payee -> SentRecord]
      /\ \A j \in Payee : payoutSent'[j].bridge = payoutSent[j].bridge
      /\ \A j \in Payee, c \in PayoutCycle :
            j # i \/ c # n => payoutSent'[j].settlement[c] = payoutSent[j].settlement[c]
      /\ ~Outstanding(payoutSent[i].settlement[n]) =>
            ResentForAnswers(payoutSent'[i].settlement[n])
  <2>1. payoutSent[i].settlement[n] \in TransferRecord
    BY <1>4 DEF PayoutInv, PayoutTyped, SentRecord
  <2>2. PICK q \in TransferRecord :
           /\ q = CountedSend(payoutSent[i].settlement[n])
           /\ ~Outstanding(payoutSent[i].settlement[n]) => ResentForAnswers(q)
    BY <2>1, SendCounted
  <2>3. payoutSent' = WithSettlement(i, n, q)
    BY <1>3, <2>2 DEF WithSettlement
  <2>4. /\ payoutSent' \in [Payee -> SentRecord] /\ payoutSent'[i].settlement[n] = q
        /\ \A j \in Payee : payoutSent'[j].bridge = payoutSent[j].bridge
        /\ \A j \in Payee, c \in PayoutCycle :
              j # i \/ c # n => payoutSent'[j].settlement[c] = payoutSent[j].settlement[c]
    BY <1>4, <2>3, SettlementCounted
  <2> QED BY <2>2, <2>4
<1>9. PayoutTyped' /\ \A v \in PayoutWorker : CrewFacts(v)'
  BY <1>3, <1>7, <1>8, CrewKept DEF PayoutInv, PayoutTyped
<1>10. ChargeFacts'
  <2>1. /\ r.cycle > 1 \/ r.pc = "advance" => AllFirstCharged
        /\ r.pc \in AfterCharge => payCharge'[<<r.i, 1>>] = "succeeded"
    BY <1>1, <1>3, <1>4, <1>6 DEF PayoutInv, ChargeFacts, FirstCharged
  <2>2. /\ \A j \in Payee : FirstCharged(j) => FirstCharged(j)'
        /\ \A j \in Payee, c \in PayoutCycle :
              payCharge'[<<j, c>>] = "succeeded" => payCharge'[<<j, 1>>] = "succeeded"
        /\ \A j \in Payee :
              payee'[j].status = "paid" \/ payee'[j].receipt = "sent" => FirstCharged(j)
        /\ payPass'.cycle > 1 \/ payPass'.status = "settled" => AllFirstCharged
        /\ ~setting.recurring => payPass'.cycle = 1
    BY <1>3 DEF PayoutInv, ChargeFacts, FirstCharged
  <2>3. \A j \in Payee, c \in PayoutCycle :
           payoutSent'[j].settlement[c].sent > 0 => FirstCharged(j)
    BY <1>4, <1>8 DEF PayoutInv, ChargeFacts
  <2> QED BY <1>3, <1>6, <2>1, <2>2, <2>3, ChargesKept
<1>11. BridgeFacts'
  <2>1. BridgesFor(w, r)
    BY <1>1, <1>3, <1>4, <1>6 DEF BridgesFor, PayoutInv, BridgeFacts
  <2> QED BY <1>3, <1>8, <2>1, BridgesKept
<1>12. SettleFacts'
  <2>1. Payee' = Payee /\ OnePayer' = OnePayer
    BY SameSetting
  <2> SUFFICES ASSUME OnePayer PROVE SettleFacts'
    BY <2>1 DEF SettleFacts
  <2>2. n = payPass.cycle /\ CopyIsTrue(w)
    BY <1>1, <1>4 DEF PayoutInv, SettleFacts
  <2>3. ~payee[i].settlement
    BY <1>1, <1>3, <1>4, <2>2, CrewSteps DEF CopyIsTrue
  <2>4. \A v \in PayWorker : crew[v].pc # "idle" => v = w
    BY <1>4 DEF OnePayer, PayoutInv, CrewFacts, PayoutWorker
  <2>5. ~Outstanding(payoutSent[i].settlement[n])
    BY <1>3, <1>4, <2>2, <2>3, <2>4 DEF PayoutInv, SettleFacts
  <2>6. /\ crew' = [crew EXCEPT ![w] = r] /\ crew'[w] = r
        /\ \A v \in PayoutWorker \ {w} : crew'[v] = crew[v]
    BY <1>3, <1>4 DEF PayNow
  <2>7. ASSUME NEW v \in PayWorker, Busy(v)'
        PROVE  crew'[v].cycle = payPass'.cycle /\ CopyIsTrue(v)'
    <3>1. v = w
      BY <2>4, <2>6, <2>7 DEF Busy, PayoutWorker
    <3>2. CopyIsTrue(w)'
      BY <1>1, <1>3, <1>6, <2>2, <2>6, CrewSteps DEF CopyIsTrue
    <3> QED BY <1>3, <1>6, <2>2, <2>6, <3>1, <3>2
  <2>8. ASSUME NEW j \in Payee, NEW c \in PayoutCycle
        PROVE  /\ ResentForAnswers(payoutSent'[j].settlement[c])
               /\ c > payPass'.cycle => payoutSent'[j].settlement[c] = NoTransfer
    <3>1. CASE j = i /\ c = n
      <4>1. ResentForAnswers(payoutSent'[j].settlement[c]) /\ ~(c > payPass'.cycle)
        BY <1>3, <1>4, <1>8, <2>2, <2>5, <3>1, FirstCycle
      <4> QED BY <4>1
    <3>2. CASE j # i \/ c # n
      BY <1>3, <1>8, <3>2 DEF PayoutInv, SettleFacts
    <3> QED BY <3>1, <3>2
  <2>9. ASSUME NEW j \in Payee, Outstanding(payoutSent'[j].settlement[payPass'.cycle])
        PROVE  payee'[j].settlement
               \/ \E v \in PayWorker : crew'[v].pc = "settled" /\ crew'[v].i = j
    <3>1. CASE j = i
      BY <1>4, <1>6, <2>6, <3>1
    <3>2. CASE j # i
      BY <1>3, <1>4, <1>8, <2>2, <2>4, <2>9, <3>2 DEF PayoutInv, SettleFacts
    <3> QED BY <3>1, <3>2
  <2> QED BY <2>1, <2>7, <2>8, <2>9 DEF SettleFacts
<1> QED BY <1>9, <1>10, <1>11, <1>12 DEF PayoutInv

\* A bridge transfer, a top-up or a channel open is sent; a worker that runs alone sends
\* the bridge transfer only if none was.
LEMMA LiquiditySent ==
  ASSUME PayoutInv, setting' = setting, NEW w \in PayoutWorker,
         NEW kind \in {"bridge", "topUp", "channel"}, SendLiquidity(w, kind)
  PROVE  PayoutInv'
<1>1. PICK i, n : i = crew[w].i /\ n = crew[w].cycle
  OBVIOUS
<1>2. PICK r : r = [crew[w] EXCEPT !.pc = "record", !.kind = kind]
  OBVIOUS
<1>3. /\ crew[w].pc = "liquidity" /\ PayNow(w, r) /\ (kind = "bridge" <=> ~payee[i].bridge)
      /\ payoutSent' = IF kind # "bridge" THEN payoutSent
                       ELSE [payoutSent EXCEPT ![i].bridge[n] = CountedSend(@)]
      /\ payPass' = payPass /\ payee' = payee /\ payCharge' = payCharge
  BY <1>1, <1>2 DEF SendLiquidity, PayAt, LiquidityDue, PayeeOf
<1>4. /\ i \in Payee /\ i \in crew[w].todo /\ w \in setting.crew
      /\ Busy(w) /\ n \in PayoutCycle /\ crew \in [PayoutWorker -> CrewRecord]
  BY <1>1, <1>3, CrewSteps, InHand DEF PayoutInv, PayoutTyped, Busy, CrewRecord
<1>5. /\ r \in CrewRecord /\ r.pc = "record" /\ r.i = i /\ r.todo = crew[w].todo
      /\ r.settled = crew[w].settled /\ r.cycle = n /\ r.kind = kind
  <2>1. crew[w] \in CrewRecord /\ "record" \in CrewStep
    BY <1>4, CrewSteps
  <2> QED BY <1>1, <1>2, <2>1 DEF CrewRecord
<1>6. CrewFits(w, r)
  BY <1>4, <1>5, CrewSteps DEF CrewFits
<1>7. /\ payoutSent' \in [Payee -> SentRecord]
      /\ \A j \in Payee : payoutSent'[j].settlement = payoutSent[j].settlement
      /\ kind = "bridge" =>
            /\ \A j \in Payee, c \in PayoutCycle :
                  j # i \/ c # n => payoutSent'[j].bridge[c] = payoutSent[j].bridge[c]
            /\ ~Outstanding(payoutSent[i].bridge[n]) => ResentForAnswers(payoutSent'[i].bridge[n])
  <2>1. CASE kind # "bridge"
    BY <1>3, <2>1 DEF PayoutInv, PayoutTyped
  <2>2. CASE kind = "bridge"
    <3>1. payoutSent[i].bridge[n] \in TransferRecord
      BY <1>4 DEF PayoutInv, PayoutTyped, SentRecord
    <3>2. PICK q \in TransferRecord :
             /\ q = CountedSend(payoutSent[i].bridge[n])
             /\ ~Outstanding(payoutSent[i].bridge[n]) => ResentForAnswers(q)
      BY <3>1, SendCounted
    <3>3. payoutSent' = WithBridge(i, n, q)
      BY <1>3, <2>2, <3>2 DEF WithBridge
    <3>4. /\ payoutSent' \in [Payee -> SentRecord] /\ payoutSent'[i].bridge[n] = q
          /\ \A j \in Payee : payoutSent'[j].settlement = payoutSent[j].settlement
          /\ \A j \in Payee, c \in PayoutCycle :
                j # i \/ c # n => payoutSent'[j].bridge[c] = payoutSent[j].bridge[c]
      BY <1>4, <3>3, BridgeCounted
    <3> QED BY <2>2, <3>2, <3>4
  <2> QED BY <2>1, <2>2
<1>8. PayoutTyped' /\ \A v \in PayoutWorker : CrewFacts(v)'
  BY <1>3, <1>6, <1>7, CrewKept DEF PayoutInv, PayoutTyped
<1>9. ChargeFacts'
  <2>1. /\ r.cycle > 1 \/ r.pc = "advance" => AllFirstCharged
        /\ r.pc \notin AfterCharge
    BY <1>1, <1>5, CrewSteps DEF PayoutInv, ChargeFacts
  <2>2. /\ \A j \in Payee : FirstCharged(j) => FirstCharged(j)'
        /\ \A j \in Payee, c \in PayoutCycle :
              payCharge'[<<j, c>>] = "succeeded" => payCharge'[<<j, 1>>] = "succeeded"
        /\ \A j \in Payee :
              payee'[j].status = "paid" \/ payee'[j].receipt = "sent" => FirstCharged(j)
        /\ payPass'.cycle > 1 \/ payPass'.status = "settled" => AllFirstCharged
        /\ ~setting.recurring => payPass'.cycle = 1
    BY <1>3 DEF PayoutInv, ChargeFacts, FirstCharged
  <2>3. \A j \in Payee, c \in PayoutCycle :
           payoutSent'[j].settlement[c].sent > 0 => FirstCharged(j)
    BY <1>7 DEF PayoutInv, ChargeFacts
  <2> QED BY <1>3, <1>5, <2>1, <2>2, <2>3, ChargesKept
<1>10. SettleFacts'
  <2>1. SettlesFor(w, r)
    <3> SUFFICES ASSUME OnePayer, w \in PayWorker
                 PROVE  /\ r.cycle = payPass.cycle
                        /\ \A j \in r.todo : payee[j].settlement => j \in r.settled
      BY <1>3 DEF SettlesFor
    <3>1. n = payPass.cycle /\ CopyIsTrue(w)
      BY <1>1, <1>4 DEF PayoutInv, SettleFacts
    <3> QED BY <1>3, <1>5, <3>1, CrewSteps DEF CopyIsTrue
  <2> QED BY <1>3, <1>7, <2>1, SettlesKept
<1>11. BridgeFacts'
  <2>1. CASE kind # "bridge"
    <3>1. BridgesFor(w, r)
      BY <1>1, <1>3, <1>4, <1>5 DEF BridgesFor, PayoutInv, BridgeFacts
    <3> QED BY <1>3, <2>1, <3>1, BridgesKept
  <2>2. CASE kind = "bridge"
    <3>1. Payee' = Payee /\ OneWorker' = OneWorker
      BY SameSetting
    <3> SUFFICES ASSUME OneWorker PROVE BridgeFacts'
      BY <3>1 DEF BridgeFacts
    <3>2. /\ \A j \in Payee, c \in PayoutCycle :
                j # i \/ c # n => payoutSent'[j].bridge[c] = payoutSent[j].bridge[c]
          /\ ~Outstanding(payoutSent[i].bridge[n]) => ResentForAnswers(payoutSent'[i].bridge[n])
      BY <1>7, <2>2
    <3>3. n = payPass.cycle
      BY <1>1, <1>4 DEF PayoutInv, BridgeFacts
    <3>4. \A v \in PayoutWorker : crew[v].pc # "idle" => v = w
      BY <1>4 DEF OneWorker, PayoutInv, CrewFacts
    <3>5. ~Outstanding(payoutSent[i].bridge[n])
      BY <1>3, <1>4, <2>2, <3>3, <3>4 DEF PayoutInv, BridgeFacts
    <3>6. /\ crew' = [crew EXCEPT ![w] = r] /\ crew'[w] = r
          /\ \A v \in PayoutWorker \ {w} : crew'[v] = crew[v]
      BY <1>3, <1>4 DEF PayNow
    <3>7. ASSUME NEW v \in PayoutWorker, Busy(v)' PROVE crew'[v].cycle = payPass'.cycle
      <4>1. v = w
        BY <3>4, <3>6, <3>7 DEF Busy
      <4> QED BY <1>3, <1>5, <3>3, <3>6, <4>1
    <3>8. ASSUME NEW j \in Payee, NEW c \in PayoutCycle
          PROVE  /\ ResentForAnswers(payoutSent'[j].bridge[c])
                 /\ c > payPass'.cycle => payoutSent'[j].bridge[c] = NoTransfer
      <4>1. CASE j = i /\ c = n
        <5>1. ResentForAnswers(payoutSent'[j].bridge[c]) /\ ~(c > payPass'.cycle)
          BY <1>3, <1>4, <3>2, <3>3, <3>5, <4>1, FirstCycle
        <5> QED BY <5>1
      <4>2. CASE j # i \/ c # n
        BY <1>3, <3>2, <4>2 DEF PayoutInv, BridgeFacts
      <4> QED BY <4>1, <4>2
    <3>9. ASSUME NEW j \in Payee, Outstanding(payoutSent'[j].bridge[payPass'.cycle])
          PROVE  payee'[j].bridge
                 \/ \E v \in PayoutWorker : /\ crew'[v].pc = "record" /\ crew'[v].i = j
                                            /\ crew'[v].kind = "bridge"
      <4>1. CASE j = i
        BY <1>5, <2>2, <3>6, <4>1
      <4>2. CASE j # i
        BY <1>3, <1>4, <3>2, <3>3, <3>4, <3>9, <4>2 DEF PayoutInv, BridgeFacts
      <4> QED BY <4>1, <4>2
    <3> QED BY <3>1, <3>7, <3>8, <3>9 DEF BridgeFacts
  <2> QED BY <2>1, <2>2
<1> QED BY <1>8, <1>9, <1>10, <1>11 DEF PayoutInv

\* The answer to a settlement is lost: its worker fails and nothing is outstanding.
LEMMA SettlementLost ==
  ASSUME PayoutInv, setting' = setting, NEW w \in PayoutWorker, SettlementUnheard(w)
  PROVE  PayoutInv'
<1>1. PICK i, n : i = crew[w].i /\ n = crew[w].cycle
  OBVIOUS
<1>2. PICK code, r : /\ code \in FailureCodes /\ r = [crew[w] EXCEPT !.pc = "fail", !.code = code]
                     /\ PayNow(w, r)
  BY DEF SettlementUnheard, PayFails, FailureCodes
<1>3. /\ crew[w].pc = "settled"
      /\ payoutSent' = [payoutSent EXCEPT ![i].settlement[n] = Unheard(@)]
      /\ payPass' = payPass /\ payee' = payee /\ payCharge' = payCharge
  BY <1>1 DEF SettlementUnheard, PayAt, PayeeOf
<1>4. /\ i \in Payee /\ i \in crew[w].todo /\ w \in PayWorker /\ w \in setting.crew
      /\ FirstCharged(i) /\ Busy(w) /\ n \in PayoutCycle
      /\ crew \in [PayoutWorker -> CrewRecord]
  BY <1>1, <1>3, CrewSteps, InHand
     DEF PayoutInv, PayoutTyped, CrewFacts, ChargeFacts, Busy, CrewRecord
<1>5. GoneTo(w, r, "fail")
  BY <1>2, FailTyped
<1>6. /\ r \in CrewRecord /\ r.pc = "fail" /\ r.i = i /\ r.todo = crew[w].todo
      /\ r.settled = crew[w].settled /\ r.cycle = n
  BY <1>1, <1>5 DEF GoneTo
<1>7. CrewFits(w, r)
  BY <1>4, <1>6, CrewSteps DEF CrewFits
<1>8. /\ payoutSent' \in [Payee -> SentRecord]
      /\ \A j \in Payee : payoutSent'[j].bridge = payoutSent[j].bridge
      /\ \A j \in Payee, c \in PayoutCycle :
            j # i \/ c # n => payoutSent'[j].settlement[c] = payoutSent[j].settlement[c]
      /\ ResentForAnswers(payoutSent[i].settlement[n]) =>
            /\ ResentForAnswers(payoutSent'[i].settlement[n])
            /\ ~Outstanding(payoutSent'[i].settlement[n])
  <2>1. payoutSent[i].settlement[n] \in TransferRecord
    BY <1>4 DEF PayoutInv, PayoutTyped, SentRecord
  <2>2. PICK q \in TransferRecord :
           /\ q = Unheard(payoutSent[i].settlement[n])
           /\ ResentForAnswers(payoutSent[i].settlement[n]) =>
                 ResentForAnswers(q) /\ ~Outstanding(q)
    BY <2>1, LossCounted
  <2>3. payoutSent' = WithSettlement(i, n, q)
    BY <1>3, <2>2 DEF WithSettlement
  <2>4. /\ payoutSent' \in [Payee -> SentRecord] /\ payoutSent'[i].settlement[n] = q
        /\ \A j \in Payee : payoutSent'[j].bridge = payoutSent[j].bridge
        /\ \A j \in Payee, c \in PayoutCycle :
              j # i \/ c # n => payoutSent'[j].settlement[c] = payoutSent[j].settlement[c]
    BY <1>4, <2>3, SettlementCounted
  <2> QED BY <2>2, <2>4
<1>9. PayoutTyped' /\ \A v \in PayoutWorker : CrewFacts(v)'
  BY <1>2, <1>3, <1>7, <1>8, CrewKept DEF PayoutInv, PayoutTyped
<1>10. ChargeFacts'
  <2>1. /\ r.cycle > 1 \/ r.pc = "advance" => AllFirstCharged
        /\ r.pc \notin AfterCharge
    BY <1>1, <1>6, CrewSteps DEF PayoutInv, ChargeFacts
  <2>2. /\ \A j \in Payee : FirstCharged(j) => FirstCharged(j)'
        /\ \A j \in Payee, c \in PayoutCycle :
              payCharge'[<<j, c>>] = "succeeded" => payCharge'[<<j, 1>>] = "succeeded"
        /\ \A j \in Payee :
              payee'[j].status = "paid" \/ payee'[j].receipt = "sent" => FirstCharged(j)
        /\ payPass'.cycle > 1 \/ payPass'.status = "settled" => AllFirstCharged
        /\ ~setting.recurring => payPass'.cycle = 1
    BY <1>3 DEF PayoutInv, ChargeFacts, FirstCharged
  <2>3. \A j \in Payee, c \in PayoutCycle :
           payoutSent'[j].settlement[c].sent > 0 => FirstCharged(j)
    BY <1>4, <1>8 DEF PayoutInv, ChargeFacts
  <2> QED BY <1>2, <1>6, <2>1, <2>2, <2>3, ChargesKept
<1>11. BridgeFacts'
  <2>1. BridgesFor(w, r)
    BY <1>1, <1>3, <1>4, <1>6 DEF BridgesFor, PayoutInv, BridgeFacts
  <2> QED BY <1>2, <1>3, <1>8, <2>1, BridgesKept
<1>12. SettleFacts'
  <2>1. Payee' = Payee /\ OnePayer' = OnePayer
    BY SameSetting
  <2> SUFFICES ASSUME OnePayer PROVE SettleFacts'
    BY <2>1 DEF SettleFacts
  <2>2. n = payPass.cycle /\ CopyIsTrue(w) /\ ResentForAnswers(payoutSent[i].settlement[n])
    BY <1>1, <1>4 DEF PayoutInv, SettleFacts
  <2>3. \A v \in PayWorker : crew[v].pc # "idle" => v = w
    BY <1>4 DEF OnePayer, PayoutInv, CrewFacts, PayoutWorker
  <2>4. /\ crew' = [crew EXCEPT ![w] = r] /\ crew'[w] = r
        /\ \A v \in PayoutWorker \ {w} : crew'[v] = crew[v]
    BY <1>2, <1>4 DEF PayNow
  <2>5. ASSUME NEW v \in PayWorker, Busy(v)'
        PROVE  crew'[v].cycle = payPass'.cycle /\ CopyIsTrue(v)'
    <3>1. v = w
      BY <2>3, <2>4, <2>5 DEF Busy, PayoutWorker
    <3>2. CopyIsTrue(w)'
      BY <1>1, <1>3, <1>6, <2>2, <2>4, CrewSteps DEF CopyIsTrue
    <3> QED BY <1>3, <1>6, <2>2, <2>4, <3>1, <3>2
  <2>6. ASSUME NEW j \in Payee, NEW c \in PayoutCycle
        PROVE  /\ ResentForAnswers(payoutSent'[j].settlement[c])
               /\ c > payPass'.cycle => payoutSent'[j].settlement[c] = NoTransfer
    <3>1. CASE j = i /\ c = n
      <4>1. ResentForAnswers(payoutSent'[j].settlement[c]) /\ ~(c > payPass'.cycle)
        BY <1>3, <1>4, <1>8, <2>2, <3>1, FirstCycle
      <4> QED BY <4>1
    <3>2. CASE j # i \/ c # n
      BY <1>3, <1>8, <3>2 DEF PayoutInv, SettleFacts
    <3> QED BY <3>1, <3>2
  <2>7. ASSUME NEW j \in Payee, Outstanding(payoutSent'[j].settlement[payPass'.cycle])
        PROVE  payee'[j].settlement
               \/ \E v \in PayWorker : crew'[v].pc = "settled" /\ crew'[v].i = j
    <3>1. j # i
      BY <1>3, <1>8, <2>2, <2>7
    <3>2. Outstanding(payoutSent[j].settlement[payPass.cycle])
      BY <1>3, <1>4, <1>8, <2>2, <2>7, <3>1
    <3>3. payee[j].settlement \/ \E v \in PayWorker : crew[v].pc = "settled" /\ crew[v].i = j
      BY <3>2 DEF PayoutInv, SettleFacts
    <3>4. \A v \in PayWorker : crew[v].pc = "settled" => crew[v].i = i
      BY <1>1, <2>3
    <3> QED BY <1>3, <3>1, <3>3, <3>4
  <2> QED BY <2>1, <2>5, <2>6, <2>7 DEF SettleFacts
<1> QED BY <1>9, <1>10, <1>11, <1>12 DEF PayoutInv

\* The answer to a bridge transfer, a top-up or a channel open is lost.
LEMMA LiquidityLost ==
  ASSUME PayoutInv, setting' = setting, NEW w \in PayoutWorker, LiquidityUnheard(w)
  PROVE  PayoutInv'
<1>1. PICK i, n : i = crew[w].i /\ n = crew[w].cycle
  OBVIOUS
<1>2. PICK code, r : /\ code \in FailureCodes /\ r = [crew[w] EXCEPT !.pc = "fail", !.code = code]
                     /\ PayNow(w, r)
  BY DEF LiquidityUnheard, PayFails, FailureCodes
<1>3. /\ crew[w].pc = "record"
      /\ payoutSent' = IF crew[w].kind # "bridge" THEN payoutSent
                       ELSE [payoutSent EXCEPT ![i].bridge[n] = Unheard(@)]
      /\ payPass' = payPass /\ payee' = payee /\ payCharge' = payCharge
  BY <1>1 DEF LiquidityUnheard, PayAt, PayeeOf
<1>4. CASE crew[w].kind # "bridge"
  <2>1. BooksKept /\ WalletsKept
    BY <1>3, <1>4, WalletsSame DEF BooksKept
  <2> QED BY <1>2, <1>3, <1>4, <2>1, FailTyped, WorkerGoesTo, CrewSteps
<1>5. CASE crew[w].kind = "bridge"
  <2>1. /\ i \in Payee /\ i \in crew[w].todo /\ w \in setting.crew
        /\ Busy(w) /\ n \in PayoutCycle /\ crew \in [PayoutWorker -> CrewRecord]
    BY <1>1, <1>3, CrewSteps, InHand DEF PayoutInv, PayoutTyped, Busy, CrewRecord
  <2>2. GoneTo(w, r, "fail")
    BY <1>2, FailTyped
  <2>3. /\ r \in CrewRecord /\ r.pc = "fail" /\ r.i = i /\ r.todo = crew[w].todo
        /\ r.settled = crew[w].settled /\ r.cycle = n
    BY <1>1, <2>2 DEF GoneTo
  <2>4. CrewFits(w, r)
    BY <2>1, <2>3, CrewSteps DEF CrewFits
  <2>5. /\ payoutSent' \in [Payee -> SentRecord]
        /\ \A j \in Payee : payoutSent'[j].settlement = payoutSent[j].settlement
        /\ \A j \in Payee, c \in PayoutCycle :
              j # i \/ c # n => payoutSent'[j].bridge[c] = payoutSent[j].bridge[c]
        /\ ResentForAnswers(payoutSent[i].bridge[n]) =>
              /\ ResentForAnswers(payoutSent'[i].bridge[n])
              /\ ~Outstanding(payoutSent'[i].bridge[n])
    <3>1. payoutSent[i].bridge[n] \in TransferRecord
      BY <2>1 DEF PayoutInv, PayoutTyped, SentRecord
    <3>2. PICK q \in TransferRecord :
             /\ q = Unheard(payoutSent[i].bridge[n])
             /\ ResentForAnswers(payoutSent[i].bridge[n]) =>
                   ResentForAnswers(q) /\ ~Outstanding(q)
      BY <3>1, LossCounted
    <3>3. payoutSent' = WithBridge(i, n, q)
      BY <1>3, <1>5, <3>2 DEF WithBridge
    <3>4. /\ payoutSent' \in [Payee -> SentRecord] /\ payoutSent'[i].bridge[n] = q
          /\ \A j \in Payee : payoutSent'[j].settlement = payoutSent[j].settlement
          /\ \A j \in Payee, c \in PayoutCycle :
                j # i \/ c # n => payoutSent'[j].bridge[c] = payoutSent[j].bridge[c]
      BY <2>1, <3>3, BridgeCounted
    <3> QED BY <3>2, <3>4
  <2>6. PayoutTyped' /\ \A v \in PayoutWorker : CrewFacts(v)'
    BY <1>2, <1>3, <2>4, <2>5, CrewKept DEF PayoutInv, PayoutTyped
  <2>7. ChargeFacts'
    <3>1. /\ r.cycle > 1 \/ r.pc = "advance" => AllFirstCharged
          /\ r.pc \notin AfterCharge
      BY <1>1, <2>3, CrewSteps DEF PayoutInv, ChargeFacts
    <3>2. /\ \A j \in Payee : FirstCharged(j) => FirstCharged(j)'
          /\ \A j \in Payee, c \in PayoutCycle :
                payCharge'[<<j, c>>] = "succeeded" => payCharge'[<<j, 1>>] = "succeeded"
          /\ \A j \in Payee :
                payee'[j].status = "paid" \/ payee'[j].receipt = "sent" => FirstCharged(j)
          /\ payPass'.cycle > 1 \/ payPass'.status = "settled" => AllFirstCharged
          /\ ~setting.recurring => payPass'.cycle = 1
      BY <1>3 DEF PayoutInv, ChargeFacts, FirstCharged
    <3>3. \A j \in Payee, c \in PayoutCycle :
             payoutSent'[j].settlement[c].sent > 0 => FirstCharged(j)
      BY <2>5 DEF PayoutInv, ChargeFacts
    <3> QED BY <1>2, <2>3, <3>1, <3>2, <3>3, ChargesKept
  <2>8. SettleFacts'
    <3>1. SettlesFor(w, r)
      <4> SUFFICES ASSUME OnePayer, w \in PayWorker
                   PROVE  /\ r.cycle = payPass.cycle
                          /\ \A j \in r.todo : payee[j].settlement => j \in r.settled
        BY <1>3 DEF SettlesFor
      <4>1. n = payPass.cycle /\ CopyIsTrue(w)
        BY <1>1, <2>1 DEF PayoutInv, SettleFacts
      <4> QED BY <1>3, <2>3, <4>1, CrewSteps DEF CopyIsTrue
    <3> QED BY <1>2, <1>3, <2>5, <3>1, SettlesKept
  <2>9. BridgeFacts'
    <3>1. Payee' = Payee /\ OneWorker' = OneWorker
      BY SameSetting
    <3> SUFFICES ASSUME OneWorker PROVE BridgeFacts'
      BY <3>1 DEF BridgeFacts
    <3>2. n = payPass.cycle /\ ResentForAnswers(payoutSent[i].bridge[n])
      BY <1>1, <2>1 DEF PayoutInv, BridgeFacts
    <3>3. \A v \in PayoutWorker : crew[v].pc # "idle" => v = w
      BY <2>1 DEF OneWorker, PayoutInv, CrewFacts
    <3>4. /\ crew' = [crew EXCEPT ![w] = r] /\ crew'[w] = r
          /\ \A v \in PayoutWorker \ {w} : crew'[v] = crew[v]
      BY <1>2, <2>1 DEF PayNow
    <3>5. ASSUME NEW v \in PayoutWorker, Busy(v)' PROVE crew'[v].cycle = payPass'.cycle
      <4>1. v = w
        BY <3>3, <3>4, <3>5 DEF Busy
      <4> QED BY <1>3, <2>3, <3>2, <3>4, <4>1
    <3>6. ASSUME NEW j \in Payee, NEW c \in PayoutCycle
          PROVE  /\ ResentForAnswers(payoutSent'[j].bridge[c])
                 /\ c > payPass'.cycle => payoutSent'[j].bridge[c] = NoTransfer
      <4>1. CASE j = i /\ c = n
        <5>1. ResentForAnswers(payoutSent'[j].bridge[c]) /\ ~(c > payPass'.cycle)
          BY <1>3, <2>1, <2>5, <3>2, <4>1, FirstCycle
        <5> QED BY <5>1
      <4>2. CASE j # i \/ c # n
        BY <1>3, <2>5, <4>2 DEF PayoutInv, BridgeFacts
      <4> QED BY <4>1, <4>2
    <3>7. ASSUME NEW j \in Payee, Outstanding(payoutSent'[j].bridge[payPass'.cycle])
          PROVE  payee'[j].bridge
                 \/ \E v \in PayoutWorker : /\ crew'[v].pc = "record" /\ crew'[v].i = j
                                            /\ crew'[v].kind = "bridge"
      <4>1. j # i
        BY <1>3, <2>5, <3>2, <3>7
      <4>2. Outstanding(payoutSent[j].bridge[payPass.cycle])
        BY <1>3, <2>1, <2>5, <3>2, <3>7, <4>1
      <4>3. payee[j].bridge \/ \E v \in PayoutWorker : crew[v].pc = "record" /\ crew[v].i = j
        BY <4>2 DEF PayoutInv, BridgeFacts
      <4>4. \A v \in PayoutWorker : crew[v].pc = "record" => crew[v].i = i
        BY <1>1, <3>3
      <4> QED BY <1>3, <4>1, <4>3, <4>4
    <3> QED BY <3>1, <3>5, <3>6, <3>7 DEF BridgeFacts
  <2> QED BY <2>6, <2>7, <2>8, <2>9 DEF PayoutInv
<1> QED BY <1>4, <1>5

\* finalizePayoutCycleIfComplete closes the pass.
LEMMA PassSettles ==
  ASSUME PayoutInv, setting' = setting, NEW w \in PayoutWorker, SettlePass(w)
  PROVE  PayoutInv'
<1>1. PICK r : r = IdlePayoutWorker
  OBVIOUS
<1>2. /\ crew[w].pc = "advance" /\ PayNow(w, r) /\ payee' = payee /\ payCharge' = payCharge
      /\ payoutSent' = payoutSent /\ payPass' = [payPass EXCEPT !.status = "settled"]
  BY <1>1 DEF SettlePass, PayAt
<1>3. CrewFits(w, r) /\ r.pc = "idle" /\ r.cycle = 1 /\ r \in CrewRecord
  BY <1>1, RestFits DEF CrewFits
<1>4. AllFirstCharged
  BY <1>2 DEF PayoutInv, ChargeFacts
<1>5. /\ payPass' \in [status: {"active", "settled"}, cycle: PayoutCycle]
      /\ payPass'.cycle = payPass.cycle
  <2>1. payPass \in [status: {"active", "settled"}, cycle: PayoutCycle]
    BY DEF PayoutInv, PayoutTyped
  <2> QED BY <1>2, <2>1
<1>6. PayoutTyped' /\ \A v \in PayoutWorker : CrewFacts(v)'
  BY <1>2, <1>3, <1>5, CrewKept DEF PayoutInv, PayoutTyped
<1>7. ChargeFacts'
  <2>1. /\ \A j \in Payee : FirstCharged(j) => FirstCharged(j)'
        /\ \A j \in Payee, c \in PayoutCycle :
              payCharge'[<<j, c>>] = "succeeded" => payCharge'[<<j, 1>>] = "succeeded"
        /\ \A j \in Payee :
              payee'[j].status = "paid" \/ payee'[j].receipt = "sent" => FirstCharged(j)
        /\ \A j \in Payee, c \in PayoutCycle :
              payoutSent'[j].settlement[c].sent > 0 => FirstCharged(j)
        /\ ~setting.recurring => payPass'.cycle = 1
        /\ r.pc \notin AfterCharge
    BY <1>2, <1>3, <1>5, CrewSteps DEF PayoutInv, ChargeFacts, FirstCharged
  <2> QED BY <1>2, <1>3, <1>4, <2>1, ChargesKept
<1>8. SettlesFor(w, r) /\ BridgesFor(w, r)
  BY <1>2, <1>3 DEF SettlesFor, BridgesFor
<1>9. SettleFacts'
  BY <1>2, <1>5, <1>8, SettlesKept
<1>10. BridgeFacts'
  BY <1>2, <1>5, <1>8, BridgesKept
<1> QED BY <1>6, <1>7, <1>9, <1>10 DEF PayoutInv

\* finalizePayoutCycleIfComplete starts the next cycle with recipients that have nothing;
\* nothing was sent for it yet.
LEMMA CycleAdvances ==
  ASSUME PayoutInv, setting' = setting, NEW w \in PayoutWorker, AdvanceCycle(w)
  PROVE  PayoutInv'
<1>1. PICK r, n : r = IdlePayoutWorker /\ n = crew[w].cycle
  OBVIOUS
<1>2. /\ crew[w].pc = "advance" /\ PayNow(w, r) /\ payCharge' = payCharge
      /\ payoutSent' = payoutSent /\ payPass' = [payPass EXCEPT !.cycle = n + 1]
      /\ n < MaxCycle /\ setting.recurring /\ payee' = [i \in Payee |-> ResetWallet]
  BY <1>1 DEF AdvanceCycle, PayAt
<1>3. CrewFits(w, r) /\ r.pc = "idle" /\ r.cycle = 1 /\ r \in CrewRecord
  BY <1>1, RestFits DEF CrewFits
<1>4. AllFirstCharged /\ w \in PayWorker /\ w \in setting.crew
  BY <1>2, CrewSteps DEF PayoutInv, ChargeFacts, CrewFacts, PayingOnly
<1>5. n \in PayoutCycle /\ n \in Nat /\ n + 1 \in PayoutCycle
  BY <1>1, <1>2, FirstCycle, InHand DEF CrewRecord, PayoutCycle
<1>6. /\ payPass' \in [status: {"active", "settled"}, cycle: PayoutCycle]
      /\ payPass'.cycle = n + 1
  <2>1. payPass \in [status: {"active", "settled"}, cycle: PayoutCycle]
    BY DEF PayoutInv, PayoutTyped
  <2> QED BY <1>2, <1>5, <2>1
<1>7. /\ payee' \in [Payee -> WalletRecord]
      /\ \A j \in Payee : /\ payee'[j].status = "pending" /\ payee'[j].receipt = "none"
                          /\ payee'[j] = ResetWallet
  <2>1. /\ ResetWallet \in WalletRecord /\ ResetWallet.status = "pending"
        /\ ResetWallet.receipt = "none"
    BY DEF ResetWallet, FreshWallet, WalletRecord, FailureCodes
  <2> QED BY <1>2, <2>1
<1>8. PayoutTyped' /\ \A v \in PayoutWorker : CrewFacts(v)'
  BY <1>2, <1>3, <1>6, <1>7, CrewKept DEF PayoutInv, PayoutTyped
<1>9. ChargeFacts'
  <2>1. /\ \A j \in Payee : FirstCharged(j) => FirstCharged(j)'
        /\ \A j \in Payee, c \in PayoutCycle :
              payCharge'[<<j, c>>] = "succeeded" => payCharge'[<<j, 1>>] = "succeeded"
        /\ \A j \in Payee, c \in PayoutCycle :
              payoutSent'[j].settlement[c].sent > 0 => FirstCharged(j)
        /\ r.pc \notin AfterCharge
    BY <1>2, <1>3, CrewSteps DEF PayoutInv, ChargeFacts, FirstCharged
  <2>2. \A j \in Payee : payee'[j].status = "paid" \/ payee'[j].receipt = "sent" => FirstCharged(j)
    BY <1>7
  <2> QED BY <1>2, <1>3, <1>4, <2>1, <2>2, ChargesKept
<1>10. /\ crew' = [crew EXCEPT ![w] = r] /\ crew'[w] = r
       /\ \A v \in PayoutWorker \ {w} : crew'[v] = crew[v]
  BY <1>2 DEF PayNow, PayoutInv, PayoutTyped
<1>11. Busy(w)
  BY <1>2 DEF Busy
<1>12. SettleFacts'
  <2>1. Payee' = Payee /\ OnePayer' = OnePayer
    BY SameSetting
  <2> SUFFICES ASSUME OnePayer PROVE SettleFacts'
    BY <2>1 DEF SettleFacts
  <2>2. n = payPass.cycle
    BY <1>1, <1>4, <1>11 DEF PayoutInv, SettleFacts
  <2>3. \A v \in PayWorker : ~Busy(v)'
    BY <1>3, <1>4, <1>10 DEF OnePayer, PayoutInv, CrewFacts, PayoutWorker, Busy
  <2>4. ASSUME NEW j \in Payee, NEW c \in PayoutCycle
        PROVE  /\ ResentForAnswers(payoutSent'[j].settlement[c])
               /\ c > n => payoutSent'[j].settlement[c] = NoTransfer
    BY <1>2, <2>2 DEF PayoutInv, SettleFacts
  <2>5. ASSUME NEW c \in PayoutCycle, c > n + 1 PROVE c > n
    BY <1>5, <2>5, FirstCycle
  <2>6. \A j \in Payee : ~Outstanding(payoutSent'[j].settlement[n + 1])
    BY <1>5, <2>4, TransferCounts
  <2> QED BY <1>6, <2>1, <2>3, <2>4, <2>5, <2>6 DEF SettleFacts
<1>13. BridgeFacts'
  <2>1. Payee' = Payee /\ OneWorker' = OneWorker
    BY SameSetting
  <2> SUFFICES ASSUME OneWorker PROVE BridgeFacts'
    BY <2>1 DEF BridgeFacts
  <2>2. n = payPass.cycle
    BY <1>1, <1>4, <1>11 DEF PayoutInv, BridgeFacts
  <2>3. \A v \in PayoutWorker : ~Busy(v)'
    BY <1>3, <1>4, <1>10 DEF OneWorker, PayoutInv, CrewFacts, Busy
  <2>4. ASSUME NEW j \in Payee, NEW c \in PayoutCycle
        PROVE  /\ ResentForAnswers(payoutSent'[j].bridge[c])
               /\ c > n => payoutSent'[j].bridge[c] = NoTransfer
    BY <1>2, <2>2 DEF PayoutInv, BridgeFacts
  <2>5. ASSUME NEW c \in PayoutCycle, c > n + 1 PROVE c > n
    BY <1>5, <2>5, FirstCycle
  <2>6. \A j \in Payee : ~Outstanding(payoutSent'[j].bridge[n + 1])
    BY <1>5, <2>4, TransferCounts
  <2> QED BY <1>6, <2>1, <2>3, <2>4, <2>5, <2>6 DEF BridgeFacts
<1> QED BY <1>8, <1>9, <1>12, <1>13 DEF PayoutInv

\* A minute passes, or a receipt that failed is sent again.
LEMMA RecipientTouched ==
  ASSUME PayoutInv, setting' = setting, NEW i \in Payee,
         MinutePasses(i) \/ RunPayoutReceiptNotifications(i)
  PROVE  PayoutInv'
<1>1. UNCHANGED <<setting, payPass, payCharge, payoutSent, crew>>
  BY DEF MinutePasses, RunPayoutReceiptNotifications
<1>2. payee \in [Payee -> WalletRecord] /\ payee[i] \in WalletRecord
  BY DEF PayoutInv, PayoutTyped
<1>3. CASE MinutePasses(i)
  <2>1. PICK x : x = [payee[i] EXCEPT !.old = TRUE]
    OBVIOUS
  <2>2. /\ x \in WalletRecord /\ x.settlement = payee[i].settlement /\ x.bridge = payee[i].bridge
        /\ x.status = payee[i].status /\ x.receipt = payee[i].receipt
    BY <1>2, <2>1 DEF WalletRecord
  <2>3. payee' = [payee EXCEPT ![i] = x]
    BY <1>2, <1>3, <2>1 DEF MinutePasses
  <2>4. x.status = "paid" \/ x.receipt = "sent" => FirstCharged(i)
    BY <2>2 DEF PayoutInv, ChargeFacts
  <2>5. WalletsKept
    BY <2>2, <2>3, <2>4, WalletWritten
  <2> QED BY <1>1, <2>5, WalletTouched
<1>4. CASE RunPayoutReceiptNotifications(i)
  <2>1. PICK x : x = [payee[i] EXCEPT !.receipt = "sent"]
    OBVIOUS
  <2>2. x \in WalletRecord /\ x.settlement = payee[i].settlement /\ x.bridge = payee[i].bridge
    BY <1>2, <2>1 DEF WalletRecord
  <2>3. payee' = [payee EXCEPT ![i] = x] /\ payee[i].status = "paid"
    BY <1>2, <1>4, <2>1 DEF RunPayoutReceiptNotifications
  <2>4. FirstCharged(i)
    BY <2>3 DEF PayoutInv, ChargeFacts
  <2>5. WalletsKept
    BY <2>2, <2>3, <2>4, WalletWritten
  <2> QED BY <1>1, <2>5, WalletTouched
<1> QED BY <1>3, <1>4

\* A pass starts with fresh recipients, no charge, no transfer and idle workers.
LEMMA PayoutInitial ==
  ASSUME ScheduledPayoutInit
  PROVE  PayoutInv
<1>1. /\ setting \in Settings /\ Len(setting.rails) \in Nat
      /\ 1 \in 1..(Len(setting.rails) + 1) /\ 1 \in PayoutCycle
  BY PayoutAssumption, FirstCycle DEF ScheduledPayoutInit
<1>2. /\ payPass \in [status: {"active", "settled"}, cycle: PayoutCycle]
      /\ payPass.status = "active" /\ payPass.cycle = 1
  BY <1>1 DEF ScheduledPayoutInit
<1>3. /\ payee \in [Payee -> WalletRecord]
      /\ \A i \in Payee : payee[i].status = "pending" /\ payee[i].receipt = "none"
  BY DEF ScheduledPayoutInit, FreshWallet, WalletRecord, FailureCodes
<1>4. /\ payCharge \in [Payee \X PayoutCycle -> {"none", "failed", "succeeded"}]
      /\ \A i \in Payee, c \in PayoutCycle : payCharge[<<i, c>>] = "none"
  BY DEF ScheduledPayoutInit
<1>5. /\ payoutSent \in [Payee -> SentRecord]
      /\ \A i \in Payee, c \in PayoutCycle : /\ payoutSent[i].settlement[c] = NoTransfer
                                             /\ payoutSent[i].bridge[c] = NoTransfer
  <2>1. PICK y : y = [bridge |-> [c \in PayoutCycle |-> NoTransfer],
                      settlement |-> [c \in PayoutCycle |-> NoTransfer]]
    OBVIOUS
  <2>2. /\ y \in SentRecord
        /\ \A c \in PayoutCycle : y.settlement[c] = NoTransfer /\ y.bridge[c] = NoTransfer
    BY <2>1, TransferCounts DEF SentRecord
  <2>3. payoutSent = [i \in Payee |-> y]
    BY <2>1 DEF ScheduledPayoutInit
  <2> QED BY <2>2, <2>3
<1>6. /\ crew \in [PayoutWorker -> CrewRecord]
      /\ \A w \in PayoutWorker : crew[w].pc = "idle" /\ crew[w].cycle = 1
  <2>1. /\ IdlePayoutWorker \in CrewRecord /\ IdlePayoutWorker.pc = "idle"
        /\ IdlePayoutWorker.cycle = 1
    BY <1>1 DEF IdlePayoutWorker, CrewRecord, CrewStep, FailureCodes
  <2>2. crew = [w \in PayoutWorker |-> IdlePayoutWorker]
    BY DEF ScheduledPayoutInit
  <2> QED BY <2>1, <2>2
<1>7. PayoutTyped
  BY <1>1, <1>2, <1>3, <1>4, <1>5, <1>6 DEF PayoutTyped
<1>8. \A w \in PayoutWorker : CrewFacts(w)
  BY <1>6 DEF CrewFacts, Handling, AfterCharge, PayingOnly
<1>9. ChargeFacts
  BY <1>2, <1>3, <1>4, <1>5, <1>6, CrewSteps, TransferCounts DEF ChargeFacts
<1>10. \A w \in PayoutWorker : ~Busy(w)
  BY <1>6 DEF Busy
<1>11. SettleFacts
  BY <1>1, <1>2, <1>5, <1>10, TransferCounts DEF SettleFacts, PayoutWorker
<1>12. BridgeFacts
  BY <1>1, <1>2, <1>5, <1>10, TransferCounts DEF BridgeFacts
<1> QED BY <1>7, <1>8, <1>9, <1>11, <1>12 DEF PayoutInv

\* Every step of the workers, of the clock and of the receipts keeps the invariant.
LEMMA PayoutStep ==
  ASSUME PayoutInv, [ScheduledPayoutNext]_payoutVars
  PROVE  PayoutInv'
<1>1. CASE UNCHANGED payoutVars
  <2>1. WalletsKept /\ UNCHANGED <<setting, payPass, payCharge, payoutSent, crew>>
    BY <1>1, WalletsSame DEF payoutVars
  <2> QED BY <2>1, WalletTouched
<1>2. ASSUME setting' = setting, NEW w \in PayoutWorker, LoopNext(w)
      PROVE  PayoutInv'
  BY <1>2, ScanKeeps, LoopKeeps, HandlingStarts, FailureKeeps, FinalizeKeeps, CycleAdvances,
     PassSettles DEF LoopNext
<1>3. ASSUME setting' = setting, NEW w \in PayoutWorker, LiquidityNext(w)
      PROVE  PayoutInv'
  BY <1>3, LiquidityKeeps, LiquiditySent, LiquidityLost DEF LiquidityNext
<1>4. ASSUME setting' = setting, NEW w \in PayoutWorker, PaymentNext(w)
      PROVE  PayoutInv'
  BY <1>4, ChargeKeeps, PaymentReads, SettlementSent, SettlementRecorded, SettlementLost,
     PaidKeeps, FailureKeeps DEF PaymentNext
<1>5. ASSUME setting' = setting, NEW i \in Payee,
             MinutePasses(i) \/ RunPayoutReceiptNotifications(i)
      PROVE  PayoutInv'
  BY <1>5, RecipientTouched
<1> QED BY <1>1, <1>2, <1>3, <1>4, <1>5 DEF ScheduledPayoutNext

\* A crew with one worker of a kind has no two of them.
LEMMA OneOfAKind ==
  ASSUME NEW S, Cardinality(S) = 1, IsFiniteSet(S)
  PROVE  \A v, w \in S : v = w
BY FS_Singleton

\* The invariant implies what the runs check of the payouts.
LEMMA PayoutIsSound ==
  ASSUME PayoutInv
  PROVE  PayoutTypeOK /\ PayoutsAreCharged /\ TransfersOnce
<1>1. IsFiniteSet(setting.crew) /\ IsFiniteSet(setting.crew \cap PayWorker)
  BY PayoutAssumption, PayeeFacts, FS_Subset DEF PayoutWorker
<1>2. SettledOnce
  <2> SUFFICES ASSUME ~setting.stops, Cardinality(setting.crew \cap PayWorker) = 1
               PROVE  \A i \in Payee, c \in PayoutCycle :
                         ResentForAnswers(payoutSent[i].settlement[c])
    BY DEF SettledOnce
  <2>1. OnePayer
    BY <1>1, OneOfAKind DEF OnePayer
  <2> QED BY <2>1 DEF PayoutInv, SettleFacts
<1>3. BridgedOnce
  <2> SUFFICES ASSUME ~setting.stops, Cardinality(setting.crew) = 1
               PROVE  \A i \in Payee, c \in PayoutCycle :
                         ResentForAnswers(payoutSent[i].bridge[c])
    BY DEF BridgedOnce
  <2>1. OneWorker
    BY <1>1, OneOfAKind DEF OneWorker
  <2> QED BY <2>1 DEF PayoutInv, BridgeFacts
<1>4. PaidIsCharged
  <2>1. payPass.cycle \in PayoutCycle
    BY DEF PayoutInv, PayoutTyped
  <2> QED BY <2>1 DEF PaidIsCharged, ChargedNow, PayoutInv, ChargeFacts, FirstCharged
<1>5. FinishedCycleIsCharged
  BY DEF FinishedCycleIsCharged, PayoutInv, ChargeFacts, AllFirstCharged, FirstCharged
<1>6. PayoutTypeOK
  <2>1. /\ payPass.status \in {"active", "settled"} /\ payPass.cycle \in PayoutCycle
        /\ \A k \in DOMAIN payCharge : payCharge[k] \in {"none", "failed", "succeeded"}
    BY DEF PayoutInv, PayoutTyped
  <2>2. \A i \in Payee : /\ payee[i].status \in {"pending", "processing", "paid", "failed"}
                         /\ payee[i].code \in FailureCodes
    BY DEF PayoutInv, PayoutTyped, WalletRecord
  <2>3. \A w \in PayoutWorker : crew[w].i \in 1..(Len(setting.rails) + 1)
    BY DEF PayoutInv, PayoutTyped, CrewRecord
  <2> QED BY <2>1, <2>2, <2>3 DEF PayoutTypeOK
<1> QED BY <1>2, <1>3, <1>4, <1>5, <1>6 DEF PayoutsAreCharged, TransfersOnce

\* For any number of recipients, cycles and workers: a recipient of a one-off pass is paid,
\* gets a receipt or a settlement only for a successful charge, no cycle ends before every
\* recipient was charged, and a payout worker that runs alone and is not stopped settles a
\* recipient, and bridges its funds, once a cycle and once more for every lost answer.
THEOREM PayoutsCorrect ==
  ScheduledPayoutSpec => [](PayoutTypeOK /\ PayoutsAreCharged /\ TransfersOnce)
<1>1. ScheduledPayoutInit => PayoutInv
  BY PayoutInitial
<1>2. PayoutInv /\ [ScheduledPayoutNext]_payoutVars => PayoutInv'
  BY PayoutStep
<1>3. PayoutInv => PayoutTypeOK /\ PayoutsAreCharged /\ TransfersOnce
  BY PayoutIsSound
<1> QED BY <1>1, <1>2, <1>3, PTL DEF ScheduledPayoutSpec

-----------------------------------------------------------------------------
(* Claim links.                                                            *)
\* The requests, and the ones of their steps that have a link in hand.
ClerkHolds == {"expire", "found", "find", "insert", "migrated", "revoke"}
ClerkRecord == [pc: {"idle", "expired", "resend", "mail", "forget"} \cup ClerkHolds,
                k: 0..MaxLinks, seen: LinkStatus]
LinkRecord == [status: LinkStatus, lapsed: BOOLEAN, embedded: BOOLEAN]
GuestRecord == [destination: 0..MaxLinks, status: {"awaiting_details", "pending", "paid"},
                invite: {"open", "claimed", "revoked", "expired"}, email: BOOLEAN,
                token: 0..MaxLinks, claim: Link]

ClaimTyped ==
    /\ link \in [Link -> LinkRecord]
    /\ destination \in [Link -> {"none", "active", "replaced"}]
    /\ guest \in GuestRecord
    /\ clerk \in [Clerk -> ClerkRecord]

\* Only the first link can be one of an older pass, and only that one is imported.
ClerkFacts(c) ==
    /\ clerk[c].pc \in ClerkHolds => clerk[c].k \in Link
    /\ clerk[c].pc = "insert" => link[clerk[c].k].embedded
LinkFacts ==
    /\ \A k \in Link : link[k].embedded => k = 1
    /\ guest.token # 0 => Issued(guest.token) \/ link[guest.token].embedded

ClaimInv ==
    /\ ClaimTyped
    /\ (\A c \in Clerk : ClerkFacts(c)) /\ LinkFacts
    /\ OneDestination /\ OneUsableLink

\* The requests write nothing at the start, and the first link is out or embedded.
LEMMA ClaimInitial == RecipientClaimInit => ClaimInv
<1> SUFFICES ASSUME RecipientClaimInit PROVE ClaimInv
  OBVIOUS
<1>1. MaxLinks \in Nat /\ MaxLinks >= 2 /\ 1 \in Link /\ 0 \in 0..MaxLinks /\ 1 \in 0..MaxLinks
  BY ClaimAssumption DEF Link
<1>2. PICK first \in {"pending", "none"} :
         link = [k \in Link |-> [status |-> IF k = 1 THEN first ELSE "none", lapsed |-> FALSE,
                                 embedded |-> k = 1 /\ first = "none"]]
  BY DEF RecipientClaimInit
<1>3. /\ link \in [Link -> LinkRecord] /\ \A k \in Link : link[k].embedded => k = 1
      /\ \A k \in Link : k # 1 => link[k].status = "none"
      /\ link[1].status # "none" \/ link[1].embedded
  BY <1>1, <1>2 DEF LinkRecord, LinkStatus
<1>4. guest \in GuestRecord /\ guest.token = 1 /\ guest.destination = 0
  BY <1>1 DEF RecipientClaimInit, GuestRecord
<1>5. IdleClerk \in ClerkRecord /\ IdleClerk.pc = "idle"
  BY <1>1 DEF IdleClerk, ClerkRecord, LinkStatus
<1>6. /\ clerk \in [Clerk -> ClerkRecord] /\ \A c \in Clerk : ClerkFacts(c)
      /\ destination = [k \in Link |-> "none"]
  BY <1>5 DEF RecipientClaimInit, ClerkFacts, ClerkHolds
<1>7. ClaimTyped
  BY <1>3, <1>4, <1>6 DEF ClaimTyped
<1>8. LinkFacts
  BY <1>3, <1>4 DEF LinkFacts, Issued
<1>9. OneDestination
  BY <1>6 DEF OneDestination
<1>10. OneUsableLink
  BY <1>1, <1>3 DEF OneUsableLink, Link
<1> QED BY <1>6, <1>7, <1>8, <1>9, <1>10 DEF ClaimInv

\* What a step may do to link k without sending a new one: it stays issued, a link
\* that is used up stays so, and only a link of an older pass becomes pending.
LinkKept(k) ==
    /\ link'[k].embedded = link[k].embedded
    /\ link[k].status \in {"claimed", "revoked"} => link'[k].status = link[k].status
    /\ link[k].status # "none" => link'[k].status # "none"
    /\ link'[k].status = "pending" => link[k].status = "pending" \/ link[k].embedded

\* The record a request goes on with is well formed.
ClerkFits(r) ==
    /\ r \in ClerkRecord
    /\ r.pc \in ClerkHolds => r.k \in Link
    /\ r.pc = "insert" => link[r.k].embedded

\* A step that binds no destination and sends no new link.
LEMMA LinksKept ==
  ASSUME ClaimInv, clerk' \in [Clerk -> ClerkRecord],
         \A c \in Clerk : clerk'[c] = clerk[c] \/ ClerkFits(clerk'[c]),
         link' \in [Link -> LinkRecord], \A k \in Link : LinkKept(k),
         destination' = destination, guest' \in GuestRecord,
         guest'.destination = guest.destination, guest'.token \in {0, guest.token}
  PROVE  ClaimInv'
<1>1. /\ link \in [Link -> LinkRecord] /\ clerk \in [Clerk -> ClerkRecord] /\ guest \in GuestRecord
      /\ \A k \in Link : link'[k].embedded = link[k].embedded
      /\ \A c \in Clerk : ClerkFacts(c)
  BY DEF ClaimInv, ClaimTyped, LinkKept
<1>2. ClaimTyped'
  BY <1>1 DEF ClaimInv, ClaimTyped
<1>3. ASSUME NEW c \in Clerk PROVE ClerkFacts(c)'
  BY <1>1 DEF ClerkFacts, ClerkFits, ClerkHolds
<1>4. LinkFacts'
  <2>1. guest.token \in 0..MaxLinks /\ (guest.token # 0 => guest.token \in Link)
    BY <1>1, ClaimAssumption DEF GuestRecord, Link
  <2> QED BY <1>1, <2>1 DEF ClaimInv, LinkFacts, LinkKept, Issued
<1>5. OneDestination'
  BY DEF ClaimInv, OneDestination, LinkKept
<1>6. OneUsableLink'
  <2> SUFFICES ASSUME NEW j \in Link, NEW k \in Link, j < k, link'[j].status = "pending",
                      link'[k].status = "pending"
               PROVE  link'[j].embedded
    BY DEF OneUsableLink
  <2>1. ~link[k].embedded
    BY ClaimAssumption DEF ClaimInv, LinkFacts, Link
  <2>2. link[k].status = "pending" /\ (link[j].status = "pending" \/ link[j].embedded)
    BY <2>1 DEF LinkKept
  <2> QED BY <1>1, <2>2 DEF ClaimInv, OneUsableLink
<1> QED BY <1>2, <1>3, <1>4, <1>5, <1>6 DEF ClaimInv

\* A request goes on and binds no destination.
LEMMA ClaimKept ==
  ASSUME ClaimInv, NEW c \in Clerk, NEW r, ClerkFits(r), clerk' = [clerk EXCEPT ![c] = r],
         link' \in [Link -> LinkRecord], \A k \in Link : LinkKept(k),
         destination' = destination, guest' \in GuestRecord,
         guest'.destination = guest.destination, guest'.token \in {0, guest.token}
  PROVE  ClaimInv'
<1>1. r \in ClerkRecord /\ clerk \in [Clerk -> ClerkRecord]
  BY DEF ClerkFits, ClaimInv, ClaimTyped
<1>2. /\ clerk' \in [Clerk -> ClerkRecord]
      /\ \A b \in Clerk : clerk'[b] = clerk[b] \/ clerk'[b] = r
  BY <1>1
<1> QED BY <1>2, LinksKept

\* A request that only answers or reads.
LEMMA ClerkMoves ==
  ASSUME ClaimInv, NEW c \in Clerk, NEW r, ClerkFits(r), clerk' = [clerk EXCEPT ![c] = r],
         link' = link, destination' = destination, guest' \in GuestRecord,
         guest'.destination = guest.destination, guest'.token \in {0, guest.token}
  PROVE  ClaimInv'
<1>1. link' \in [Link -> LinkRecord] /\ \A k \in Link : LinkKept(k)
  BY DEF ClaimInv, ClaimTyped, LinkKept
<1> QED BY <1>1, ClaimKept

\* The links that a withdrawal revokes are the pending ones.
LEMMA PendingRevoked ==
  ASSUME ClaimInv
  PROVE  /\ RevokePending \in [Link -> LinkRecord]
         /\ \A k \in Link :
               /\ RevokePending[k].embedded = link[k].embedded
               /\ RevokePending[k].status # "pending"
               /\ link[k].status # "pending" => RevokePending[k] = link[k]
               /\ link[k].status = "pending" => RevokePending[k].status = "revoked"
BY DEF ClaimInv, ClaimTyped, RevokePending, LinkRecord, LinkStatus

\* The records of a request that has no link in hand.
LEMMA ClerkFree ==
  ASSUME NEW s \in {"idle", "expired", "resend", "mail", "forget"}
  PROVE  /\ ClerkFits([IdleClerk EXCEPT !.pc = s])
         /\ \A k \in Link, t \in ClerkHolds \ {"insert"} :
               ClerkFits([IdleClerk EXCEPT !.pc = t, !.k = k])
         /\ ClerkFits(IdleClerk)
<1>1. 0 \in 0..MaxLinks /\ \A k \in Link : k \in 0..MaxLinks
  BY ClaimAssumption DEF Link
<1> QED BY <1>1 DEF ClerkFits, IdleClerk, ClerkRecord, ClerkHolds, LinkStatus

\* What findRecipientClaim goes on with.
LEMMA FoundFits ==
  ASSUME ClaimInv, NEW k \in Link
  PROVE  ClerkFits(Found(k))
<1>1. "idle" \in {"idle", "expired", "resend", "mail", "forget"}
      /\ {"expire", "found"} \subseteq ClerkHolds \ {"insert"}
  BY DEF ClerkHolds
<1>2. ClerkFits(IdleClerk) /\ \A t \in {"expire", "found"} :
                                 ClerkFits([IdleClerk EXCEPT !.pc = t, !.k = k])
  BY <1>1, ClerkFree
<1>3. Found(k) = IdleClerk
      \/ \E t \in {"expire", "found"} : Found(k) = [IdleClerk EXCEPT !.pc = t, !.k = k]
  BY DEF Found
<1> QED BY <1>2, <1>3

\* claimRecipientWallet: the destination it binds replaces the one before.
LEMMA ClaimBinds ==
  ASSUME ClaimInv, NEW c \in Clerk, ClaimRecipientWallet(c)
  PROVE  ClaimInv'
<1>1. PICK k : k = clerk[c].k
  OBVIOUS
<1>2. /\ k \in Link /\ link[k].status = "pending" /\ link \in [Link -> LinkRecord]
      /\ clerk \in [Clerk -> ClerkRecord] /\ guest \in GuestRecord
      /\ destination \in [Link -> {"none", "active", "replaced"}]
  BY <1>1 DEF ClaimInv, ClaimTyped, ClerkFacts, ClerkHolds, ClaimRecipientWallet, ClerkAt,
     Consumable
<1>3. /\ link' = [link EXCEPT ![k].status = "claimed"] /\ destination' = BindDestination(k)
      /\ guest' = [guest EXCEPT !.destination = k, !.status = "pending", !.invite = "claimed"]
      /\ clerk' = [clerk EXCEPT ![c] = IdleClerk]
  BY <1>1 DEF ClaimRecipientWallet, ClerkDone, ClerkGoes
<1>4. /\ link' \in [Link -> LinkRecord] /\ link'[k].status = "claimed"
      /\ \A j \in Link : link'[j].embedded = link[j].embedded
      /\ \A j \in Link \ {k} : link'[j] = link[j]
  BY <1>2, <1>3 DEF LinkRecord, LinkStatus
<1>5. k \in 0..MaxLinks
  BY <1>2, ClaimAssumption DEF Link
<1>6. guest' \in GuestRecord /\ guest'.destination = k /\ guest'.token = guest.token
  BY <1>2, <1>3, <1>5 DEF GuestRecord
<1>7. ClerkFits(IdleClerk)
  BY ClerkFree
<1>8. clerk' \in [Clerk -> ClerkRecord] /\ \A b \in Clerk : clerk'[b] \in {IdleClerk, clerk[b]}
  BY <1>2, <1>3, <1>7 DEF ClerkFits
<1>9. /\ destination' \in [Link -> {"none", "active", "replaced"}]
      /\ \A j \in Link : destination'[j] = "active" => j = k
  BY <1>2, <1>3 DEF BindDestination
<1>10. ClaimTyped'
  BY <1>4, <1>6, <1>8, <1>9 DEF ClaimTyped
<1>11. ASSUME NEW b \in Clerk PROVE ClerkFacts(b)'
  <2>1. CASE clerk'[b] = clerk[b]
    BY <1>4, <2>1 DEF ClaimInv, ClerkFacts, ClerkHolds
  <2>2. CASE clerk'[b] = IdleClerk
    BY <2>2 DEF ClerkFacts, IdleClerk, ClerkHolds
  <2> QED BY <1>8, <2>1, <2>2
<1>12. LinkFacts'
  <2>1. guest.token # 0 => guest.token \in Link
    BY <1>2, ClaimAssumption DEF GuestRecord, Link
  <2> QED BY <1>4, <1>6, <2>1 DEF ClaimInv, LinkFacts, Issued
<1>13. OneDestination'
  BY <1>4, <1>6, <1>9 DEF OneDestination
<1>14. OneUsableLink'
  BY <1>4 DEF ClaimInv, OneUsableLink
<1> QED BY <1>10, <1>11, <1>12, <1>13, <1>14 DEF ClaimInv

\* resendRecipientInvites: the new link is the only pending one.
LEMMA ClaimResends ==
  ASSUME ClaimInv, NEW c \in Clerk, NEW k \in Link, ResendWrites(c, k)
  PROVE  ClaimInv'
<1>1. /\ link \in [Link -> LinkRecord] /\ link[k].status = "none" /\ guest \in GuestRecord
      /\ clerk \in [Clerk -> ClerkRecord]
  BY DEF ClaimInv, ClaimTyped, ResendWrites, Issued
<1>2. /\ link' = [RevokePending EXCEPT ![k].status = "pending"] /\ destination' = destination
      /\ guest' = [guest EXCEPT !.claim = k, !.token = k, !.invite = "open",
                                !.status = "awaiting_details"]
  BY DEF ResendWrites
<1>3. PICK r : clerk' = [clerk EXCEPT ![c] = r] /\ r = [clerk[c] EXCEPT !.pc = "mail"]
  BY DEF ResendWrites, ClerkStep, ClerkGoes
<1>4. r \in ClerkRecord /\ r.pc = "mail"
  BY <1>1, <1>3 DEF ClerkRecord
<1>5. /\ link' \in [Link -> LinkRecord] /\ link'[k].status = "pending"
      /\ \A j \in Link : link'[j].embedded = link[j].embedded
      /\ \A j \in Link \ {k} : link'[j] = RevokePending[j]
  BY <1>2, PendingRevoked DEF LinkRecord, LinkStatus
<1>6. k \in 0..MaxLinks /\ k # 0
  BY ClaimAssumption DEF Link
<1>7. guest' \in GuestRecord /\ guest'.destination = guest.destination /\ guest'.token = k
  BY <1>1, <1>2, <1>6 DEF GuestRecord
<1>8. ClaimTyped'
  BY <1>1, <1>2, <1>3, <1>4, <1>5, <1>7 DEF ClaimInv, ClaimTyped
<1>9. ASSUME NEW b \in Clerk PROVE ClerkFacts(b)'
  <2>1. (clerk'[b] = r /\ r.pc = "mail") \/ clerk'[b] = clerk[b]
    BY <1>1, <1>3, <1>4
  <2> QED BY <1>5, <2>1 DEF ClaimInv, ClerkFacts, ClerkHolds
<1>10. LinkFacts'
  BY <1>5, <1>7 DEF ClaimInv, LinkFacts, Issued
<1>11. OneDestination'
  <2>1. ASSUME NEW j \in Link, destination[j] = "active" PROVE link'[j].status = "claimed"
    <3>1. link[j].status = "claimed"
      BY <2>1 DEF ClaimInv, OneDestination
    <3> QED BY <1>1, <1>5, <3>1, PendingRevoked
  <2> QED BY <1>2, <1>7, <2>1 DEF ClaimInv, OneDestination
<1>12. OneUsableLink'
  <2>1. \A j \in Link : link'[j].status = "pending" => j = k
    BY <1>5, PendingRevoked
  <2> QED BY <2>1, ClaimAssumption DEF OneUsableLink, Link
<1> QED BY <1>8, <1>9, <1>10, <1>11, <1>12 DEF ClaimInv

\* Each step of the requests keeps the invariant.
LEMMA ClaimStep == ClaimInv /\ [RecipientClaimNext]_claimVars => ClaimInv'
<1> SUFFICES ASSUME ClaimInv, [RecipientClaimNext]_claimVars PROVE ClaimInv'
  OBVIOUS
<1>1. /\ link \in [Link -> LinkRecord] /\ clerk \in [Clerk -> ClerkRecord] /\ guest \in GuestRecord
      /\ destination \in [Link -> {"none", "active", "replaced"}]
      /\ \A c \in Clerk : ClerkFacts(c)
  BY DEF ClaimInv, ClaimTyped
<1>2. /\ ClerkFits(IdleClerk)
      /\ \A s \in {"idle", "expired", "resend", "mail", "forget"} :
            ClerkFits([IdleClerk EXCEPT !.pc = s])
      /\ \A k \in Link, t \in ClerkHolds \ {"insert"} :
            ClerkFits([IdleClerk EXCEPT !.pc = t, !.k = k])
      /\ {"migrated", "find", "revoke"} \subseteq ClerkHolds \ {"insert"}
  BY ClerkFree DEF ClerkHolds
<1>3. ASSUME NEW c \in Clerk, NEW k \in Link, OpenLink(c, k) PROVE ClaimInv'
  BY <1>1, <1>3, FoundFits, ClerkMoves DEF OpenLink, ClerkGoes
<1>4. ASSUME NEW c \in Clerk, FindAgain(c) PROVE ClaimInv'
  <2>1. clerk[c].k \in Link
    BY <1>1, <1>4 DEF FindAgain, ClerkAt, ClerkFacts, ClerkHolds
  <2> QED BY <1>1, <1>4, <2>1, FoundFits, ClerkMoves DEF FindAgain, ClerkGoes
<1>5. ASSUME NEW c \in Clerk, NEW k \in Link, MigrateReads(c, k) PROVE ClaimInv'
  <2> DEFINE r == [pc |-> "insert", k |-> k, seen |-> LegacyStatus(k)]
  <2>1. link[k].embedded /\ k \in 0..MaxLinks
    <3>1. k # 0 /\ k \in 0..MaxLinks
      BY ClaimAssumption DEF Link
    <3> QED BY <1>5, <3>1 DEF MigrateReads, ClaimInv, LinkFacts
  <2>2. LegacyStatus(k) \in LinkStatus
    BY DEF LegacyStatus, LinkStatus
  <2>3. ClerkFits(r)
    BY <2>1, <2>2 DEF ClerkFits, ClerkRecord, ClerkHolds
  <2>4. clerk' = [clerk EXCEPT ![c] = r]
    BY <1>5 DEF MigrateReads, ClerkGoes
  <2> HIDE DEF r
  <2> QED BY <1>1, <1>5, <2>3, <2>4, ClerkMoves DEF MigrateReads
<1>6. ASSUME NEW c \in Clerk, NEW k \in Link, RevokeReads(c, k) PROVE ClaimInv'
  <2>1. ClerkFits([IdleClerk EXCEPT !.pc = "revoke", !.k = k])
    BY <1>2
  <2> QED BY <1>1, <1>6, <2>1, ClerkMoves DEF RevokeReads, ClerkGoes
<1>7. ASSUME NEW c \in Clerk, MigrateInserts(c) PROVE ClaimInv'
  <2>1. PICK k \in Link : k = clerk[c].k
    BY <1>1, <1>7 DEF MigrateInserts, ClerkAt, ClerkFacts, ClerkHolds
  <2>2. /\ link[k].embedded /\ clerk[c].seen \in LinkStatus
        /\ clerk' = [clerk EXCEPT ![c] = [IdleClerk EXCEPT !.pc = "migrated", !.k = k]]
        /\ link' = [link EXCEPT ![k].status = IF Issued(k) THEN @ ELSE clerk[c].seen]
        /\ destination' = destination /\ guest' = guest
    BY <1>1, <1>7, <2>1 DEF MigrateInserts, ClerkAt, ClerkFacts, ClerkRecord, ClerkGoes
  <2>3. ClerkFits([IdleClerk EXCEPT !.pc = "migrated", !.k = k])
    BY <1>2
  <2>4. /\ link' \in [Link -> LinkRecord] /\ link'[k].embedded = link[k].embedded
        /\ link'[k].status = IF Issued(k) THEN link[k].status ELSE clerk[c].seen
        /\ \A j \in Link \ {k} : link'[j] = link[j]
    BY <1>1, <2>2 DEF LinkRecord
  <2>5. \A j \in Link : LinkKept(j)
    BY <2>2, <2>4 DEF LinkKept, Issued
  <2> QED BY <1>1, <2>2, <2>3, <2>4, <2>5, ClaimKept
<1>8. ASSUME NEW c \in Clerk, MigrateWritesPass(c) PROVE ClaimInv'
  <2>1. PICK r : r = [clerk[c] EXCEPT !.pc = "find"] /\ clerk' = [clerk EXCEPT ![c] = r]
    BY <1>8 DEF MigrateWritesPass, ClerkStep, ClerkGoes
  <2>2. clerk[c].k \in Link
    BY <1>1, <1>8 DEF MigrateWritesPass, ClerkAt, ClerkFacts, ClerkHolds
  <2>3. ClerkFits(r)
    BY <1>1, <2>1, <2>2 DEF ClerkFits, ClerkRecord, ClerkHolds
  <2>4. /\ guest' \in GuestRecord /\ guest'.destination = guest.destination
        /\ guest'.token = guest.token
    BY <1>1, <1>8, <2>2 DEF MigrateWritesPass, GuestRecord
  <2> QED BY <1>8, <2>1, <2>3, <2>4, ClerkMoves DEF MigrateWritesPass
<1>9. ASSUME NEW c \in Clerk, ExpireLink(c) PROVE ClaimInv'
  <2>1. PICK k \in Link : k = clerk[c].k
    BY <1>1, <1>9 DEF ExpireLink, ClerkAt, ClerkFacts, ClerkHolds
  <2>2. /\ link' = [link EXCEPT ![k].status = IF @ = "pending" THEN "expired" ELSE @]
        /\ clerk' = [clerk EXCEPT ![c] = [IdleClerk EXCEPT !.pc = "expired"]]
        /\ destination' = destination /\ guest' = guest
    BY <1>9, <2>1 DEF ExpireLink, ClerkGoes
  <2>3. ClerkFits([IdleClerk EXCEPT !.pc = "expired"])
    BY <1>2
  <2>4. /\ link' \in [Link -> LinkRecord] /\ link'[k].embedded = link[k].embedded
        /\ link'[k].status = IF link[k].status = "pending" THEN "expired" ELSE link[k].status
        /\ \A j \in Link \ {k} : link'[j] = link[j]
    BY <1>1, <2>2 DEF LinkRecord, LinkStatus
  <2>5. \A j \in Link : LinkKept(j)
    BY <2>4 DEF LinkKept
  <2> QED BY <1>1, <2>2, <2>3, <2>4, <2>5, ClaimKept
<1>10. ASSUME NEW c \in Clerk, \/ ExpireInPass(c) \/ AnswerLink(c)
                               \/ SendSessionRecipientInvites(c) \/ ForgetContact(c)
       PROVE  ClaimInv'
  <2>1. link' = link /\ destination' = destination /\ clerk' = [clerk EXCEPT ![c] = IdleClerk]
    BY <1>10 DEF ExpireInPass, AnswerLink, SendSessionRecipientInvites, ForgetContact, ClerkDone,
       ClerkGoes
  <2>2. 0 \in 0..MaxLinks
    BY ClaimAssumption
  <2>3. /\ guest' \in GuestRecord /\ guest'.destination = guest.destination
        /\ guest'.token \in {0, guest.token}
    <3>1. CASE ExpireInPass(c)
      BY <1>1, <3>1 DEF ExpireInPass, GuestRecord
    <3>2. CASE AnswerLink(c)
      BY <1>1, <3>2 DEF AnswerLink
    <3>3. CASE SendSessionRecipientInvites(c)
      BY <1>1, <3>3 DEF SendSessionRecipientInvites, GuestRecord
    <3>4. CASE ForgetContact(c)
      BY <1>1, <2>2, <3>4 DEF ForgetContact, GuestRecord
    <3> QED BY <1>10, <3>1, <3>2, <3>3, <3>4
  <2> QED BY <1>2, <2>1, <2>3, ClerkMoves
<1>11. ASSUME NEW c \in Clerk, ResendReads(c) PROVE ClaimInv'
  <2>1. ClerkFits([IdleClerk EXCEPT !.pc = "resend"])
    BY <1>2
  <2> QED BY <1>1, <1>11, <2>1, ClerkMoves DEF ResendReads, ClerkGoes
<1>12. ASSUME NEW c \in Clerk, RevokeWrites(c) PROVE ClaimInv'
  <2>1. PICK k \in Link : k = clerk[c].k
    BY <1>1, <1>12 DEF RevokeWrites, ClerkAt, ClerkFacts, ClerkHolds
  <2>2. /\ link' = [link EXCEPT ![k].status = IF @ \in RevocableStatus THEN "revoked" ELSE @]
        /\ clerk' = [clerk EXCEPT ![c] = IdleClerk] /\ destination' = destination
        /\ guest' = [guest EXCEPT !.invite = "revoked"]
    BY <1>12, <2>1 DEF RevokeWrites, ClerkDone, ClerkGoes
  <2>3. /\ link' \in [Link -> LinkRecord] /\ link'[k].embedded = link[k].embedded
        /\ link'[k].status = IF link[k].status \in RevocableStatus THEN "revoked"
                             ELSE link[k].status
        /\ \A j \in Link \ {k} : link'[j] = link[j]
    BY <1>1, <2>2 DEF LinkRecord, LinkStatus
  <2>4. \A j \in Link : LinkKept(j)
    BY <2>3 DEF LinkKept, RevocableStatus
  <2>5. /\ guest' \in GuestRecord /\ guest'.destination = guest.destination
        /\ guest'.token = guest.token
    BY <1>1, <2>2 DEF GuestRecord
  <2> QED BY <1>2, <2>2, <2>3, <2>4, <2>5, ClaimKept
<1>13. ASSUME NEW c \in Clerk, DeleteContactData(c) PROVE ClaimInv'
  <2>1. ClerkFits([IdleClerk EXCEPT !.pc = "forget"])
    BY <1>2
  <2>2. /\ link' = RevokePending /\ guest' = guest /\ destination' = destination
        /\ clerk' = [clerk EXCEPT ![c] = [IdleClerk EXCEPT !.pc = "forget"]]
    BY <1>13 DEF DeleteContactData, ClerkGoes
  <2>3. link' \in [Link -> LinkRecord] /\ \A j \in Link : LinkKept(j)
    BY <2>2, PendingRevoked DEF LinkKept
  <2> QED BY <1>1, <2>1, <2>2, <2>3, ClaimKept
<1>14. CASE PayoutPays \/ UNCHANGED claimVars \/ \E k \in Link : LinkLapses(k)
  <2>1. /\ destination' = destination /\ clerk' = clerk
        /\ guest' \in GuestRecord /\ guest'.destination = guest.destination
        /\ guest'.token = guest.token
    BY <1>1, <1>14 DEF PayoutPays, claimVars, LinkLapses, GuestRecord
  <2>2. link' \in [Link -> LinkRecord] /\ \A j \in Link : LinkKept(j)
    <3>1. CASE \E k \in Link : LinkLapses(k)
      <4>1. PICK k \in Link : link' = [link EXCEPT ![k].lapsed = TRUE]
        BY <3>1 DEF LinkLapses
      <4>2. /\ link' \in [Link -> LinkRecord] /\ link'[k].embedded = link[k].embedded
            /\ link'[k].status = link[k].status /\ \A j \in Link \ {k} : link'[j] = link[j]
        BY <1>1, <4>1 DEF LinkRecord
      <4> QED BY <4>2 DEF LinkKept
    <3>2. CASE PayoutPays \/ UNCHANGED claimVars
      BY <1>1, <3>2 DEF PayoutPays, claimVars, LinkKept
    <3> QED BY <1>14, <3>1, <3>2
  <2> QED BY <1>1, <2>1, <2>2, LinksKept
<1> QED BY <1>3, <1>4, <1>5, <1>6, <1>7, <1>8, <1>9, <1>10, <1>11, <1>12, <1>13, <1>14,
           ClaimBinds, ClaimResends DEF RecipientClaimNext

\* A link that is used up is not written, and a destination is bound by a pending one.
LEMMA LinkStaysSpent ==
  ASSUME ClaimInv, [RecipientClaimNext]_claimVars, NEW k \in Link
  PROVE  /\ link[k].status \in {"claimed", "revoked"} => link'[k].status = link[k].status
         /\ destination[k] = "none" /\ destination'[k] = "active" =>
               link[k].status = "pending" /\ ~link[k].lapsed
<1>1. /\ link \in [Link -> LinkRecord] /\ \A c \in Clerk : ClerkFacts(c)
      /\ destination \in [Link -> {"none", "active", "replaced"}]
  BY DEF ClaimInv, ClaimTyped
<1>2. CASE link' = link /\ destination' = destination
  BY <1>2
<1>3. ASSUME NEW c \in Clerk, ClaimRecipientWallet(c)
      PROVE  /\ link[k].status \in {"claimed", "revoked"} => link'[k].status = link[k].status
             /\ destination[k] = "none" /\ destination'[k] = "active" =>
                   link[k].status = "pending" /\ ~link[k].lapsed
  <2>1. PICK j : j = clerk[c].k
    OBVIOUS
  <2>2. /\ j \in Link /\ link[j].status = "pending" /\ ~link[j].lapsed
        /\ link' = [link EXCEPT ![j].status = "claimed"] /\ destination' = BindDestination(j)
    BY <1>1, <1>3, <2>1 DEF ClaimRecipientWallet, ClerkAt, ClerkFacts, ClerkHolds, Consumable
  <2>3. k # j => link'[k] = link[k] /\ destination'[k] \in {destination[k], "replaced"}
    BY <1>1, <2>2 DEF BindDestination
  <2> QED BY <2>2, <2>3
<1>4. ASSUME NEW c \in Clerk, \/ MigrateInserts(c) \/ ExpireLink(c) \/ RevokeWrites(c)
                              \/ DeleteContactData(c) \/ \E j \in Link : ResendWrites(c, j)
      PROVE  destination' = destination
             /\ (link[k].status \in {"claimed", "revoked"} => link'[k].status = link[k].status)
  <2>1. destination' = destination
    BY <1>4 DEF MigrateInserts, ExpireLink, RevokeWrites, DeleteContactData, ResendWrites
  <2>2. CASE MigrateInserts(c)
    BY <1>1, <2>1, <2>2 DEF MigrateInserts, Issued, LinkRecord
  <2>3. CASE ExpireLink(c)
    BY <1>1, <2>1, <2>3 DEF ExpireLink, LinkRecord
  <2>4. CASE RevokeWrites(c)
    BY <1>1, <2>1, <2>4 DEF RevokeWrites, RevocableStatus, LinkRecord
  <2>5. CASE DeleteContactData(c)
    BY <2>1, <2>5, PendingRevoked DEF DeleteContactData
  <2>6. ASSUME NEW j \in Link, ResendWrites(c, j)
        PROVE  link[k].status \in {"claimed", "revoked"} => link'[k].status = link[k].status
    <3>1. link' = [RevokePending EXCEPT ![j].status = "pending"] /\ link[j].status = "none"
      BY <2>6 DEF ResendWrites, Issued
    <3>2. k # j => link'[k] = RevokePending[k]
      BY <3>1, PendingRevoked
    <3> QED BY <3>1, <3>2, PendingRevoked
  <2> QED BY <1>4, <2>1, <2>2, <2>3, <2>4, <2>5, <2>6
<1>5. CASE \E j \in Link : LinkLapses(j)
  <2>1. PICK j \in Link : link' = [link EXCEPT ![j].lapsed = TRUE] /\ destination' = destination
    BY <1>5 DEF LinkLapses
  <2>2. link'[k].status = link[k].status
    BY <1>1, <2>1 DEF LinkRecord
  <2> QED BY <2>1, <2>2
<1>6. \/ link' = link /\ destination' = destination
      \/ \E j \in Link : LinkLapses(j)
      \/ \E c \in Clerk : \/ ClaimRecipientWallet(c)
                          \/ MigrateInserts(c) \/ ExpireLink(c) \/ RevokeWrites(c)
                          \/ DeleteContactData(c) \/ \E j \in Link : ResendWrites(c, j)
  BY DEF RecipientClaimNext, claimVars, OpenLink, MigrateReads, RevokeReads, FindAgain,
     ExpireInPass, MigrateWritesPass, AnswerLink, ResendReads, SendSessionRecipientInvites,
     ForgetContact, PayoutPays
<1> QED BY <1>2, <1>3, <1>4, <1>5, <1>6

\* The steps of the claims do to a link only what SpentLinkIsFinal allows.
LEMMA SpentStep ==
  ClaimInv /\ [RecipientClaimNext]_claimVars =>
     [/\ \A k \in Link : link[k].status \in {"claimed", "revoked"} =>
                            link'[k].status = link[k].status
      /\ \A k \in Link : destination[k] = "none" /\ destination'[k] = "active" =>
                            link[k].status = "pending" /\ ~link[k].lapsed]_claimVars
BY LinkStaysSpent

\* The invariant says what a link, a destination and the recipient may hold.
LEMMA ClaimIsTyped == ClaimInv => ClaimTypeOK /\ OneDestination /\ OneUsableLink
BY DEF ClaimInv, ClaimTyped, LinkRecord, GuestRecord, ClaimTypeOK

\* claimRecipientWallet, resendRecipientInvites, revokeRecipientClaim, deleteContactData
\* and the import of an older pass's link: however many requests overlap, a recipient
\* has one active destination and one usable link, and a link that was used up stays so.
THEOREM ClaimsCorrect == RecipientClaimSpec => []ClaimTypeOK /\ ClaimsSound
BY ClaimInitial, ClaimStep, SpentStep, ClaimIsTyped, PTL
   DEF RecipientClaimSpec, ClaimsSound, SpentLinkIsFinal

-----------------------------------------------------------------------------
(* The three together.                                                     *)
BackOfficeInv == PayoutInv /\ ClaimInv /\ JobsInv

\* A step of one of the three leaves the documents of the others as they were.
LEMMA BackOfficeStep == BackOfficeInv /\ [BackOfficeNext]_officeVars => BackOfficeInv'
<1> SUFFICES ASSUME BackOfficeInv, [BackOfficeNext]_officeVars PROVE BackOfficeInv'
  OBVIOUS
<1>1. /\ [ScheduledPayoutNext]_payoutVars /\ [RecipientClaimNext]_claimVars /\ [JobsNext]_jobsVars
  <2>1. CASE BackOfficeNext
    BY <2>1 DEF BackOfficeNext
  <2>2. CASE UNCHANGED officeVars
    BY <2>2 DEF officeVars
  <2> QED BY <2>1, <2>2
<1> QED BY <1>1, PayoutStep, ClaimStep, JobsStep DEF BackOfficeInv

\* The payout workers, the claim links and the payment jobs of MCBackOffice's behaviours:
\* their documents keep their schema, money leaves and jobs succeed only for a charge, no
\* transfer is repeated by a worker that runs alone but for a lost answer, and a link is
\* used up once.
THEOREM BackOfficeCorrect ==
  BackOfficeSpec =>
     [](BackOfficeTypeOK /\ PayoutsAreCharged /\ TransfersOnce /\ JobsAreCharged) /\ ClaimsSound
<1>1. BackOfficeInit => BackOfficeInv
  BY PayoutInitial, ClaimInitial, JobsInitial DEF BackOfficeInit, BackOfficeInv
<1>2. BackOfficeInv => /\ BackOfficeTypeOK /\ PayoutsAreCharged /\ TransfersOnce
                       /\ JobsAreCharged /\ OneDestination /\ OneUsableLink
  BY PayoutIsSound, ClaimIsTyped DEF BackOfficeInv, BackOfficeTypeOK, JobsInv
<1>3. BackOfficeInv /\ [BackOfficeNext]_officeVars =>
        [/\ \A k \in Link : link[k].status \in {"claimed", "revoked"} =>
                               link'[k].status = link[k].status
         /\ \A k \in Link : destination[k] = "none" /\ destination'[k] = "active" =>
                               link[k].status = "pending" /\ ~link[k].lapsed]_claimVars
  <2> SUFFICES ASSUME ClaimInv, [BackOfficeNext]_officeVars
               PROVE  [/\ \A k \in Link : link[k].status \in {"claimed", "revoked"} =>
                                             link'[k].status = link[k].status
                       /\ \A k \in Link : destination[k] = "none" /\ destination'[k] = "active" =>
                             link[k].status = "pending" /\ ~link[k].lapsed]_claimVars
    BY DEF BackOfficeInv
  <2>1. [RecipientClaimNext]_claimVars
    BY DEF BackOfficeNext, officeVars
  <2> QED BY <2>1, SpentStep
<1> QED BY <1>1, <1>2, <1>3, BackOfficeStep, PTL DEF BackOfficeSpec, ClaimsSound, SpentLinkIsFinal
=============================================================================
