---------------------------- MODULE MeteredPayment ----------------------------
(***************************************************************************)
(* Metered grants of meteredPayment.service.ts and the worker that settles *)
(* their batches.  An app reports usage events; each is reserved on the    *)
(* grant and on the pass and put into a batch, in one transaction.         *)
(* Workers claim batches under a lease, pay each through a provider whose  *)
(* idempotency key is the batch, and debit or release all of its events.   *)
(* A lease may lapse while its worker is still running.                    *)
(***************************************************************************)
EXTENDS PassCounters, DestinationResolver, FiniteSets, FiniteSetsExt, Totals

CONSTANTS
  Event,          \* usage events, by external id
  Cost,           \* the amount of each event
  Settler,        \* workers
  GrantLimit,     \* totalLimitAtomic of the grant
  MaxPerEvent,    \* maxPerEventAtomic
  Threshold,      \* immediateThresholdAtomic
  MaxBatch,       \* maxBatchAtomic
  MaxBatchEvents, \* maxBatchEvents
  RateLimit,      \* events that one rate window admits
  MaxTries        \* maxAttempts of a batch

ASSUME MeteredAssumption ==
  /\ IsFiniteSet(Event) /\ Event # {} /\ Cost \in [Event -> Nat \ {0}]
  /\ {GrantLimit, MaxPerEvent, Threshold, MaxBatch, MaxBatchEvents, RateLimit, MaxTries}
       \subseteq Nat \ {0}
  \* assertMeteredGrantLimits
  /\ MaxPerEvent <= GrantLimit /\ MaxPerEvent <= MaxBatch /\ Threshold <= MaxBatch
  /\ "expired" \in PassStatus /\ "none" \notin Settler

Batch == 1..Cardinality(Event)

VARIABLES
  grant,     \* the MeteredGrant document
  usage,     \* the UsageEvent documents
  batches,   \* the MeteredBatch documents, in the order of their creation
  inWindow,  \* events counted in the current rate window
  provider,  \* the provider's payment under the key of each batch
  settler,   \* what each worker is doing
  revoking   \* the batches a revocation still has to release

meteredVars == <<grant, usage, batches, inWindow, provider, settler, revoking>>

GrantRecord == [status: {"none", "active", "revoked", "depleted"}, reserved: Nat, spent: Nat]
Unsettled == {"reserved", "settling"}
EventRecord ==
  [status: {"none", "settled", "released", "failed"} \cup Unsettled, batch: Batch \cup {0}]
Open == {"collecting", "queued", "processing", "uncertain", "retrying"}
Final == {"succeeded", "released", "failed"}
BatchRecord ==
  [status: {"none"} \cup Open \cup Final, accepting: BOOLEAN, total: Nat, count: Nat,
   lease: Settler \cup {"none"}, submitted: BOOLEAN, tries: 0..MaxTries]
\* submitted and last: of the batch as it was claimed; failure: the error that
\* was caught; to: the final status of a release.
SettlerRecord ==
  [at: {"idle", "grant", "lookup", "resolve", "store", "settling", "submit", "pay", "answer",
        "finalize", "release", "retry", "caught"},
   b: Batch, submitted: BOOLEAN, last: BOOLEAN, failure: {"retry", "fatal"},
   to: {"released", "failed"}]

NoBatch == [status |-> "none", accepting |-> FALSE, total |-> 0, count |-> 0,
            lease |-> "none", submitted |-> FALSE, tries |-> 0]
IdleSettler == [at |-> "idle", b |-> 1, submitted |-> FALSE, last |-> FALSE,
                failure |-> "retry", to |-> "failed"]

MeteredInit ==
  /\ grant = [status |-> "none", reserved |-> 0, spent |-> 0]
  /\ usage = [e \in Event |-> [status |-> "none", batch |-> 0]]
  /\ batches = [b \in Batch |-> NoBatch]
  /\ inWindow = 0
  /\ provider = [b \in Batch |-> "none"]
  /\ settler = [w \in Settler |-> IdleSettler]
  /\ revoking = [at |-> "idle", todo |-> {}]
-----------------------------------------------------------------------------
UnsettledOf(b) == {e \in Event : usage[e].batch = b /\ usage[e].status \in Unsettled}
CostOf(E) == Total([e \in E |-> Cost[e]])

\* createMeteredGrant, by the owner of the pass.
CreateMeteredGrant ==
  /\ grant.status = "none"
  /\ Usable
  /\ GrantLimit <= PassLimit
  /\ grant' = [grant EXCEPT !.status = "active"]
  /\ UNCHANGED <<usage, batches, inWindow, provider, settler, revoking, passVars>>

GrantRemaining == GrantLimit - grant.spent - grant.reserved

\* What a batch becomes once an event of this cost is in it: it stops accepting
\* when it reaches a threshold.
Added(b, cost) ==
  LET total == b.total + cost
      full == total >= Threshold \/ total >= MaxBatch \/ b.count + 1 >= MaxBatchEvents
  IN [b EXCEPT !.total = total, !.count = @ + 1, !.accepting = ~full,
               !.status = IF full THEN "queued" ELSE "collecting"]

\* The accepting batch of the grant; there is at most one.
Accepting == {b \in Batch : batches[b].accepting}
NewBatch == Min({b \in Batch : batches[b].status = "none"})
Overfull(b, cost) == batches[b].count >= MaxBatchEvents \/ batches[b].total + cost > MaxBatch

\* An expired grant refuses events too; that it is expired is not recorded, for
\* the transaction that would save it is aborted.
Admits(e) ==
  /\ grant.status = "active" /\ Usable
  /\ Cost[e] <= MaxPerEvent /\ Cost[e] <= GrantRemaining
  /\ Room(Cost[e])
  /\ inWindow < RateLimit

\* acceptUsageEventOnce under a new external id: grant, pass, rate counter,
\* batch, event and charge attempt are written in one transaction.  A large
\* event, or one that no longer fits, goes into a batch of its own.
AcceptUsageEvent(e) ==
  LET joins == {b \in Accepting : Cost[e] < Threshold /\ ~Overfull(b, Cost[e])}
      queued == [b \in Batch |-> IF b \in Accepting /\ Cost[e] < Threshold /\ b \notin joins
                                 THEN [batches[b] EXCEPT !.accepting = FALSE, !.status = "queued"]
                                 ELSE batches[b]]
      b == IF joins # {} THEN CHOOSE x \in joins : TRUE ELSE NewBatch
  IN /\ usage[e].status = "none"
     /\ Admits(e)
     /\ inWindow' = inWindow + 1
     /\ batches' = [queued EXCEPT ![b] = Added(queued[b], Cost[e])]
     /\ usage' = [usage EXCEPT ![e] = [status |-> "reserved", batch |-> b]]
     /\ grant' = [grant EXCEPT !.reserved = @ + Cost[e]]
     /\ purse' = Held(Cost[e]) /\ WriteReserved
     /\ UNCHANGED <<provider, settler, revoking, charge>>

\* nextRateWindow: the next window has a counter of its own.
NewWindow ==
  /\ inWindow > 0
  /\ inWindow' = 0
  /\ UNCHANGED <<grant, usage, batches, provider, settler, revoking, passVars>>

\* Mutant of ReleasedBatch: the total of the batch is given back whatever became
\* of it meanwhile.
ReleasedBatchTotal(b, to) ==
  /\ usage' = [e \in Event |-> IF e \in UnsettledOf(b) THEN [usage[e] EXCEPT !.status = to]
                                                       ELSE usage[e]]
  /\ grant' = [grant EXCEPT !.reserved = @ - batches[b].total]
  /\ purse' = Returned(batches[b].total) /\ WriteReserved
  /\ batches' = [batches EXCEPT ![b].status = to, ![b].accepting = FALSE, ![b].lease = "none"]

\* releaseMeteredBatchReservation, one transaction: every event that is not
\* settled is released, whoever else is working on the batch.
ReleasedBatch(b, to) ==
  IF batches[b].status \in Final THEN UNCHANGED <<batches, usage, grant, purse, minor>>
  ELSE /\ usage' = [e \in Event |-> IF e \in UnsettledOf(b) THEN [usage[e] EXCEPT !.status = to]
                                                           ELSE usage[e]]
       /\ grant' = [grant EXCEPT !.reserved = @ - CostOf(UnsettledOf(b))]
       /\ purse' = Returned(CostOf(UnsettledOf(b))) /\ WriteReserved
       /\ batches' = [batches EXCEPT ![b].status = to, ![b].accepting = FALSE,
                                     ![b].lease = "none"]

\* revokeMeteredGrant: the grant is revoked, the batches that were not submitted
\* are listed, and each is released.
RevokeGrant ==
  /\ grant.status = "active"
  /\ revoking.at = "idle"
  /\ grant' = [grant EXCEPT !.status = "revoked"]
  /\ revoking' = [revoking EXCEPT !.at = "list"]
  /\ UNCHANGED <<usage, batches, inWindow, provider, settler, passVars>>

ListUnsubmitted ==
  /\ revoking.at = "list"
  /\ revoking' = [at |-> "release",
       todo |-> {b \in Batch : /\ batches[b].status \in {"collecting", "queued", "retrying"}
                               /\ ~batches[b].submitted}]
  /\ UNCHANGED <<grant, usage, batches, inWindow, provider, settler, passVars>>

ReleaseListed(b) ==
  /\ b \in revoking.todo
  /\ ReleasedBatch(b, "released")
  /\ revoking' = [revoking EXCEPT !.todo = @ \ {b}]
  /\ UNCHANGED <<inWindow, provider, settler, charge>>
-----------------------------------------------------------------------------
SettlerAt(w, at) == settler' = [settler EXCEPT ![w].at = at]
SettlerDone(w) == settler' = [settler EXCEPT ![w] = IdleSettler]
Throws(w, failures) ==
  \E f \in failures : settler' = [settler EXCEPT ![w].at = "caught", ![w].failure = f]
Mine(w) == batches[settler[w].b].lease = w
UpdateMine(w, new) ==
  batches' = IF Mine(w) THEN [batches EXCEPT ![settler[w].b] = new] ELSE batches

\* claimMeteredBatch; how often a batch was claimed only matters up to MaxTries.
ClaimBatch(w, b) ==
  /\ settler[w].at = "idle"
  /\ batches[b].status \in Open
  /\ batches' = [batches EXCEPT ![b].status = "processing", ![b].accepting = FALSE,
                                ![b].lease = w, ![b].tries = Min({@ + 1, MaxTries})]
  /\ settler' = [settler EXCEPT ![w] =
       [IdleSettler EXCEPT !.at = "grant", !.b = b, !.submitted = batches[b].submitted,
                           !.last = batches[b].tries + 1 >= MaxTries]]
  /\ UNCHANGED <<grant, usage, inWindow, provider, revoking, passVars>>

CheckGrant(w) ==
  /\ settler[w].at = "grant"
  /\ settler' = CASE settler[w].submitted -> [settler EXCEPT ![w].at = "lookup"]
                  [] ~settler[w].submitted /\ grant.status = "revoked" ->
                       [settler EXCEPT ![w].at = "release", ![w].to = "released"]
                  [] OTHER -> [settler EXCEPT ![w].at = "resolve"]
  /\ UNCHANGED <<grant, usage, batches, inWindow, provider, revoking, passVars>>

\* A batch that may have been paid is looked up before anything is sent again.
LookUpBatch(w) ==
  /\ settler[w].at = "lookup"
  /\ \/ SettlerAt(w, CASE provider[settler[w].b] = "succeeded" -> "finalize"
                       [] provider[settler[w].b] = "pending" -> "retry"
                       [] provider[settler[w].b] = "failed" -> "release"
                       [] OTHER -> "resolve")
     \/ Throws(w, {"retry", "fatal"})
  /\ UNCHANGED <<grant, usage, batches, inWindow, provider, revoking, passVars>>

\* The destination may be gone, or its resolution fail.
ResolveBatch(w) ==
  /\ settler[w].at = "resolve"
  /\ \/ \E outcome \in Resolution("endpoint", "lightning") :
          IF outcome = "resolved" THEN SettlerAt(w, "store")
          ELSE Throws(w, IF MeteredRetries(outcome) THEN {"retry"} ELSE {"fatal"})
     \/ Throws(w, {"fatal"})
  /\ UNCHANGED <<grant, usage, batches, inWindow, provider, revoking, passVars>>

\* The request's hash is stored under the lease, and is unique.
StoreBatchRequest(w) ==
  /\ settler[w].at = "store"
  /\ IF Mine(w) THEN SettlerAt(w, "settling") \/ Throws(w, {"retry"}) ELSE SettlerDone(w)
  /\ UNCHANGED <<grant, usage, batches, inWindow, provider, revoking, passVars>>

MarkSettling(w) ==
  /\ settler[w].at = "settling"
  /\ usage' = [e \in Event |-> IF usage[e].batch = settler[w].b /\ usage[e].status = "reserved"
                               THEN [usage[e] EXCEPT !.status = "settling"] ELSE usage[e]]
  /\ SettlerAt(w, "submit")
  /\ UNCHANGED <<grant, batches, inWindow, provider, revoking, passVars>>

\* markSubmitted does not ask whether the update found its lease.
MarkBatchSubmitted(w) ==
  /\ settler[w].at = "submit"
  /\ UpdateMine(w, [batches[settler[w].b] EXCEPT !.submitted = TRUE])
  /\ SettlerAt(w, "pay")
  /\ UNCHANGED <<grant, usage, inWindow, provider, revoking, passVars>>

\* One payment per key: a second call joins the first or is refused.
PayBatch(w) ==
  LET b == settler[w].b
  IN /\ settler[w].at = "pay"
     /\ \/ /\ provider' = IF provider[b] = "none" THEN [provider EXCEPT ![b] = "pending"]
                          ELSE provider
           /\ SettlerAt(w, "answer")
        \/ UNCHANGED provider /\ Throws(w, {"retry", "fatal"})
     /\ UNCHANGED <<grant, usage, batches, inWindow, revoking, passVars>>

\* Mutant of ReadBatchAnswer: a payment that is pending counts as paid.
ReadBatchAnswerAccepted(w) ==
  /\ settler[w].at = "answer"
  /\ SettlerAt(w, IF provider[settler[w].b] = "failed" THEN "release" ELSE "finalize")
  /\ UNCHANGED <<grant, usage, batches, inWindow, provider, revoking, passVars>>

ReadBatchAnswer(w) ==
  /\ settler[w].at = "answer"
  /\ \/ settler' = [settler EXCEPT ![w].submitted = TRUE,
                      ![w].at = CASE provider[settler[w].b] = "succeeded" -> "finalize"
                                  [] provider[settler[w].b] = "failed" -> "release"
                                  [] OTHER -> "retry"]
     \/ Throws(w, {"retry", "fatal"})
  /\ UNCHANGED <<grant, usage, batches, inWindow, provider, revoking, passVars>>

SettleProviderPayment(b) ==
  /\ provider[b] = "pending"
  /\ \E outcome \in {"succeeded", "failed"} : provider' = [provider EXCEPT ![b] = outcome]
  /\ UNCHANGED <<grant, usage, batches, inWindow, settler, revoking, passVars>>

\* The events still unsettled must add up to what the batch has counted.
Complete(b) ==
  /\ CostOf(UnsettledOf(b)) = batches[b].total
  /\ Cardinality(UnsettledOf(b)) = batches[b].count

\* Mutant of FinalizeBatch: the first event is debited, the batch is done.
FinalizeBatchPartly(w) ==
  LET b == settler[w].b
      E == IF UnsettledOf(b) = {} THEN {} ELSE {CHOOSE e \in UnsettledOf(b) : TRUE}
      total == CostOf(E)
  IN /\ settler[w].at = "finalize"
     /\ batches[b].status # "succeeded"
     /\ Complete(b)
     /\ usage' = [e \in Event |-> IF e \in E THEN [usage[e] EXCEPT !.status = "settled"]
                                             ELSE usage[e]]
     /\ grant' = [grant EXCEPT !.reserved = @ - total, !.spent = @ + total]
     /\ purse' = Debited(total) /\ WriteSpent
     /\ batches' = [batches EXCEPT ![b].status = "succeeded", ![b].lease = "none"]
     /\ SettlerDone(w)
     /\ UNCHANGED <<inWindow, provider, revoking, charge>>

\* finalizeMeteredBatch, one transaction with the funding allocation, the
\* attempts and the receipts of the events.
FinalizeBatch(w) ==
  LET b == settler[w].b
      E == UnsettledOf(b)
      total == batches[b].total
      spentOut == grant.spent + total >= GrantLimit /\ grant.status = "active"
  IN /\ settler[w].at = "finalize"
     /\ batches[b].status # "succeeded"
     /\ Complete(b)
     /\ usage' = [e \in Event |-> IF e \in E THEN [usage[e] EXCEPT !.status = "settled"]
                                             ELSE usage[e]]
     /\ grant' = [status |-> IF spentOut THEN "depleted" ELSE grant.status,
                  reserved |-> grant.reserved - total, spent |-> grant.spent + total]
     /\ purse' = [Debited(total) EXCEPT
                    !.status = IF purse.spent + total >= PassLimit THEN "expired" ELSE @]
     /\ WriteSpent
     /\ batches' = [batches EXCEPT ![b].status = "succeeded", ![b].accepting = FALSE,
                                   ![b].lease = "none"]
     /\ SettlerDone(w)
     /\ UNCHANGED <<inWindow, provider, revoking, charge>>

\* The batch is finalized already, its events are gone, or the funding
\* allocation refuses.
FinalizeBatchRefused(w) ==
  /\ settler[w].at = "finalize"
  /\ IF batches[settler[w].b].status = "succeeded" THEN SettlerDone(w) ELSE Throws(w, {"retry"})
  /\ UNCHANGED <<grant, usage, batches, inWindow, provider, revoking, passVars>>

ReleaseBatch(w) ==
  /\ settler[w].at = "release"
  /\ ReleasedBatch(settler[w].b, settler[w].to)
  /\ SettlerDone(w)
  /\ UNCHANGED <<inWindow, provider, revoking, charge>>

RetryBatch(w) ==
  /\ settler[w].at = "retry"
  /\ UpdateMine(w, [batches[settler[w].b] EXCEPT !.lease = "none",
                      !.status = IF settler[w].submitted THEN "uncertain" ELSE "retrying"])
  /\ SettlerDone(w)
  /\ UNCHANGED <<grant, usage, inWindow, provider, revoking, passVars>>

\* The handler's catch: whether the batch was submitted is read again; a
\* failure that cannot be retried, or not any more, releases the batch.
CatchFailure(w) ==
  /\ settler[w].at = "caught"
  /\ settler' = [settler EXCEPT ![w].failure = "retry", ![w].to = "failed",
       ![w].submitted = batches[settler[w].b].submitted,
       ![w].at = IF settler[w].failure = "retry" /\ ~settler[w].last THEN "retry" ELSE "release"]
  /\ UNCHANGED <<grant, usage, batches, inWindow, provider, revoking, passVars>>

CrashSettler(w) ==
  /\ settler[w].at # "idle"
  /\ SettlerDone(w)
  /\ UNCHANGED <<grant, usage, batches, inWindow, provider, revoking, passVars>>
-----------------------------------------------------------------------------
SettlerStep(w) ==
  \/ CheckGrant(w) \/ LookUpBatch(w) \/ ResolveBatch(w) \/ StoreBatchRequest(w)
  \/ MarkSettling(w) \/ MarkBatchSubmitted(w) \/ PayBatch(w) \/ ReadBatchAnswer(w)
  \/ FinalizeBatch(w) \/ FinalizeBatchRefused(w) \/ ReleaseBatch(w) \/ RetryBatch(w)
  \/ CatchFailure(w)

MeteredNext ==
  \/ CreateMeteredGrant
  \/ \E e \in Event : AcceptUsageEvent(e)
  \/ NewWindow
  \/ RevokeGrant \/ ListUnsubmitted \/ \E b \in Batch : ReleaseListed(b)
  \/ \E w \in Settler, b \in Batch : ClaimBatch(w, b)
  \/ \E w \in Settler : SettlerStep(w) \/ CrashSettler(w)
  \/ \E b \in Batch : SettleProviderPayment(b)
-----------------------------------------------------------------------------
EventsIn(statuses) == {e \in Event : usage[e].status \in statuses}

\* The documents hold statuses of their schemas, at most one batch of the grant
\* is accepting, and every worker is at a step of its handler.
MeteredTypeOK ==
  /\ grant \in GrantRecord
  /\ usage \in [Event -> EventRecord]
  /\ batches \in [Batch -> BatchRecord] /\ Cardinality(Accepting) <= 1
  /\ inWindow \in 0..RateLimit
  /\ provider \in [Batch -> {"none", "pending", "succeeded", "failed"}]
  /\ settler \in [Settler -> SettlerRecord]
  /\ revoking \in [at: {"idle", "list", "release"}, todo: SUBSET Batch]

\* Through every race of acceptance, revocation, release and settlement the
\* grant holds exactly the unsettled events and has spent exactly the settled
\* ones, within its limit.
GrantMatchesEvents ==
  /\ grant.reserved = CostOf(EventsIn(Unsettled))
  /\ grant.spent = CostOf(EventsIn({"settled"}))
  /\ grant.reserved + grant.spent <= GrantLimit

\* No batch is debited in part: its events are all unsettled, all settled or all
\* given back, and a batch counts exactly its events, within its maximum.
BatchIsWhole ==
  \A b \in Batch :
    LET E == {e \in Event : usage[e].batch = b}
        now == {usage[e].status : e \in E}
    IN /\ now \subseteq Unsettled \/ Cardinality(now) = 1
       /\ batches[b].total = CostOf(E) /\ batches[b].count = Cardinality(E)
       /\ batches[b].total <= MaxBatch /\ batches[b].count <= MaxBatchEvents

\* A settled event was paid: the provider reports its batch as succeeded.
SettledIsPaid ==
  \A e \in Event : usage[e].status = "settled" => provider[usage[e].batch] = "succeeded"
=============================================================================
