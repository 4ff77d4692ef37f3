# Verification of the FiberPass backend

FiberPass lets a wallet owner fund a *pass* (a session) once and lets apps
charge it many times without asking again. The backend is a set of Node
processes (an API, and payment, reconciliation and webhook workers) over one
MongoDB. It holds no locks: every guarantee rests on single-document filters,
on a few multi-document transactions, on leases that may lapse while their
holder is still at work, and on idempotency keys. This directory holds TLA+
models of the parts that move money or keep a promise over time, the TLC
configurations that check them, and TLAPS proofs of the most important
properties.

Source paths below are relative to `src/src/`, documents to `src/docs/`.

## 1. Inventory

| Component | State it keeps | Operations | What is hard | What makes it correct |
| --- | --- | --- | --- | --- |
| Funding sources and allocations (`services/fundingSource.service.ts`, `domain/funding.ts`) | a source per wallet or vault: balance, reserved, spent, released, reclaimable, state; an allocation per pass | record a proof, observe a balance, allocate, top up, spend, release | passes share a source; observations load a document, wait, and save over transactions that committed in between | the counters of a source are the sums over its allocations; closed allocations are history |
| Charge reservations (`services/chargeReservation.service.ts`) | a charge attempt per idempotency key; reserved and spent on the pass and per UTC day | reserve, claim, correlate, submit, succeed, uncertain, release, finalize | concurrent callers, lapsing leases, midnight around a charge, schedules and grants that write the same counters | counters that follow the attempts, both limits, one resolution per key |
| App charge handler (`services/session.service.ts`, `chargeSession`) | where each request is; the provider's payment | one database or provider round trip per step | retries with the same key, crashes, lost answers, slow holders of a lease | one payment per key, debited only if paid, no reservation held for ever |
| Pass lifecycle (`topUpSession`, `closeSession`, `togglePauseSession`) | status, lifecycle state, operation id and key, provider status | claim, ask the provider, record, complete; blind saves of the status | three transactions with a provider call in between; saves without conditions | limit and funding move together; a refund is what the allocation returns; closed passes hold nothing |
| Payment schedules (`services/paymentSchedule.service.ts`, `destinationResolver.service.ts`) | schedules, an occurrence per due date with a lease, the destination | claim, reserve, resolve, pay, account, pause, resume, revoke, replace the destination | leases lapse during resolution; the owner revokes while a payment is out | the reserve they go by is the sum of its holders; a success was paid and counted once |
| Metered payments (`services/meteredPayment*.service.ts`) | a grant, usage events, batches with leases, a rate window | accept an event, claim, pay, reconcile, finalize, release, revoke | consecutive sequence numbers at once; late settlement; revocation | grant and pass counters are the sums over the events; a batch is settled or released as a whole |
| Automation (`services/automation.service.ts`) | invoices, batches, payment jobs | queue, lock, process, retry, cancel after a fatal failure, roll up | documents without versions written from stale copies by workers, sweep and owner | what says paid was debited; every job ends |
| Scheduled payouts (`session.service.ts`, `fiberExitGateway`, `fiberLiquidityBridge`) | the recipients of a pass, its cycle, transfers sent | claim, prepare liquidity, charge, settle, reset the cycle | stops between a transfer and its record; a transfer whose answer is lost; a second worker; the charges of an earlier cycle | nobody is marked paid without a charge; no transfer is repeated without a reason |
| Nostr wallets, BTCPay, Bitcoin PSBT (`services/nwc`, `btcpay`, `bitcoinPsbt`) | a document per payment, invoice or transaction | create, submit, lose the answer, look up, broadcast, replace, confirm | lost relay answers, lapsed leases, disconnection, two transactions over one coin | one submission per invoice, one bill per order, a status that is true |
| Wallet funding and vault (`services/walletFunding`, `ckbChain`, `vaultPayout`) | deposits, the secured balance, live cells | request, confirm, sync, recover, refresh, transfer | two confirmations of a deposit; cells listed twice; a refresh before the credit | a deposit is credited once; a transfer neither creates nor loses capacity |
| Recipient claims (`session.service.ts`, `recipientIdentity.service.ts`) | claim links, destinations, the recipient's entry in the pass | issue, resend, revoke, expire, claim, import, delete | claims and resends at once; a link read before it was revoked | one destination, one usable link, spent links are final |
| Webhooks (`services/webhook.service.ts`) | a delivery with a lock | claim, post, back off, give up, take back | a lock taken back from a slow worker | succeeded was accepted; every delivery ends |
| Receipts and notifications (`receipt`, `notification` services) | a delivery per endpoint with a lease | queue, claim, send, end, remove the endpoint | removal between reading and queueing; a lease lapses while sending | bounded messages; an ended delivery stays ended; every delivery ends |
| Worker leases (`workerRuntime.service.ts`, `workers/`) | one lease document, heartbeats | acquire, sweep, release | the holder stops; the lease runs out in a sweep; shared worker ids | one replica within its lease; the sweeps go on |
| Reconciliation (`services/reconciliation.service.ts`) | none of its own | sweeps of expired passes, stale attempts, jobs and deliveries | lists read first, acted on later | a sweep never takes back what has moved on |
| Auth challenges, tickets, API keys, rate limits | single documents | issue, consume, count | expiry | single use |
| Vault v2, money conversions | none (pure functions) | transitions, conversions | boundaries | conservation, round trips |

The components call each other directly. `createSession` allocates funding;
`chargeSession` reserves, pays and finalizes, and finalization spends the
allocation in the same transaction; payment jobs and payouts end in a charge;
schedules and metered grants reserve on the pass themselves, in counters of
their own that they also write over those of the charges, and pay through an
executor; the reconciliation worker changes the documents of all of them.
Everything shared is shared through MongoDB documents.

The complete list of components, including those not modelled and why, and the
hazards with the lines where they bite, are in `PROJECT.json`.

## 2. Modules

    Totals <- FundingLedger <- ChargeReservation <- ChargeSession
                                     |      ^
                         SpendingBudget     SessionLifecycle
                         (abstract)
    PassCounters <- PaymentSchedule, MeteredPayment <- PassSpenders
    DestinationResolver <- PaymentSchedule, MeteredPayment
    NwcPayment, BtcpayGateway, BitcoinPsbt
    Totals <- WalletFunding
    ScheduledPayout, PaymentJobs (use what ChargeSession promises for one key)
    RecipientClaim, WebhookDelivery, ReceiptNotification, WorkerLease

`MC*` modules supply constants and symmetry sets for TLC; `*Proofs` modules
hold theorems. Four `MC*` modules put several components side by side: a
variable `scene`, chosen in the initial state, says which of them a behaviour
is about, and in most cases how many processes take part.

In every module a process (a request, a worker, a sweep) has a record that says
at which await it stands and holds what it read before. One action is one
database or provider round trip with the code up to the next one; a transaction
is one action, since the driver retries it on conflicts. Time is left open: a
lease or a lock may lapse at any moment, so a slow process and a dead one look
the same to the others.

### FundingLedger

`source`, `alloc` are the FundingSource and FundingAllocation documents;
`loaded` holds the copies that balance observations have read and not yet
saved. Each transaction of `fundingSource.service.ts` is one action
(`AllocateFunding`, `TopUpFunding`, `SpendFunding`, `ReleaseFunding`,
`RecordSecuredFundingProof`); an observation is two (`LoadForObservation`,
`SaveObservation`), because nothing keeps a transaction from committing between
them. `SaveOver` is what a Mongoose `save` does: it writes the fields that
differ from the loaded copy. `Refreshable` is the exception
`securedReclaimableMinor` throws when a vault is short: the transaction aborts,
so the action is disabled.

### ChargeReservation

`pass`, `daily`, `attempt` are the Session, ChargeDailyCounter and
ChargeAttempt documents, `today` the UTC day. One action per exported function
of `chargeReservation.service.ts`; each is one transaction or one conditional
update. `EnvironmentNext` is what others do to these documents: create a pass,
change its status, raise its limit, drive the funding ledger, let a lease lapse
or a day end, and, for a pass in the constant `Shared`, write whatever a schedule
or a metered grant makes of its counters (`SpendElsewhere`), whose updates do not
know what charges hold. The other passes are `Own`: only charges spend them. What
is promised of the counters of a pass is promised of those; the daily limit, the
attempts and the funding ledger are right on all.

The day of a charge is read before the transaction (`RecentDays`), so a charge
may be booked on a day (`day`) and created on the next (`created`). The first
charge of a day starts its counter with the charges that succeeded among those
created on it (`CountersOn`), and may so count a charge that another day has
counted already; on a shared pass the history also holds usage events
(`MeteredSpend`). `SpendingBudget` is the abstract promise: a key goes from free
to held to charged or returned, and is held only if the keys themselves leave
room under the limits.

### ChargeSession

`call` says at which await each caller stands and what it has read. One action
per round trip, from `BeginCharge` to `ReleaseUnusedFunding`, with the order,
early returns and error paths of the handler. `Crash` stops a caller anywhere.
`payment` and `sent` belong to the Fiber node, which is external: a payment may
settle late, and an answer may be lost. `SweepAttempts`/`ReleaseStale` and
`SweepPasses`/`ExpirePass` are the two sweeps, read first, act later; a release
that throws, which on a shared pass happens, ends the sweep's batch.
`LoadToggle`/`SaveToggle` is the owner's pause button.

### SessionLifecycle

Owner requests (`request`) top up, revoke or settle a pass in three
transactions: claim, record the provider's answer, complete. `life` holds the
lifecycle fields of the Session document. Requests crash, are repeated with the
same key, race with each other, with charges (the `ReservationNext` of
ChargeReservation) and with `togglePauseSession` and the expiry sweep, whose
blind saves are `LoadToggle`, `LoadExpired` and `SaveStatus`. Its passes are
spent by charges only (`Shared` is empty, an assumption of the module): a schedule
writes `limitMinor` from `limitAtomic`, and funding then no longer follows it.

### PassCounters, PaymentSchedule, MeteredPayment, PassSpenders

Schedules and metered grants do not go through the reservation service. The
Session document has its counters twice: they decide by `limitAtomic`,
`spentAtomic` and `reservedAtomic`, and write what they change over `limitMinor`,
`spentMinor` and `reservedMinor` as well, by which charges decide and which
alone charges and top-ups change. `PassCounters` has the first set (`purse`) and
the second (`minor`), with `WriteReserved`, `WriteSpent` and `WriteAll` for what is
copied when, one app's `charge` that moves the second set as the reservation
service does, and a top-up.

`PaymentSchedule` has the schedules, an occurrence per due date, the active
`destination` and the executor's `payment` under the key of each occurrence. A
worker lists due schedules, claims an occurrence under a lease, reserves,
resolves a request (`DestinationResolver`: refused, unavailable, expired or
malformed), submits and accounts; the owner's `request` pauses, resumes,
revokes and redirects. Which updates ask for the lease and which do not is kept
as in the code. `MeteredPayment` has the `grant`, the `usage` events in the
order of their sequence, the `batches` and the `provider`'s payments; accepting
an event is one transaction with its sequence, rate and limit checks, a batch
is claimed, reserved, paid and then debited or released with its events.
An occurrence on the Fiber rail is paid by the charge handler and holds nothing of
its own. `PassSpenders` runs both and the charge on one pass.

### NwcPayment, BtcpayGateway, BitcoinPsbt

A document per payment hash, order or transaction, and what the other side
really did (`wallet`, `remote`, `node`, `tx`), which the requests learn only
through answers that may be lost or late. `NwcPayment` reserves a connection's
budget, submits, looks up and releases; the owner may disconnect meanwhile.
`BtcpayGateway` creates an invoice under the id of the local document, so that
a retry can find it, and pays Lightning invoices under a lease. `BitcoinPsbt`
plans inputs, change and fee, reserves a coin, claims and broadcasts a signed
transaction, follows it and replaces it; miners may take any transaction that
was seen.

### WalletFunding

`chain` is the sequence of committed transactions that touch one vault, `pool`
the transfers that are sent and not committed, `fund` the WalletFunding
documents, `balance` and `source` what the wallet and its secured source say. A
`desk` is one request: creating a funding request, confirming it, syncing with
the live cells and recovering what was never confirmed, refreshing the balance,
or transferring out with the change above the minimum capacity of a cell. Out
points are ordered as on the chain, and a list of cells is a set read in that
order; the balances of the vault are `Totals` over sets of out points, and a
transfer takes the shortest beginning of the listed cells that is enough
(`UpTo`, `Enough`).

### ScheduledPayout

`payee` are the recipients of a pass, `payPass` its status and cycle, `payCharge`
the outcome per idempotency key, `payoutSent` how often the chain was sent a
transfer, and how many of the answers were lost: `sendTransaction` may throw after
the node took a transaction, which leaves a failure that is retried and no hash
(`LiquidityUnheard`, `SettlementUnheard`). `crew`
are payout workers (claim, charge, settle, record, reset of the cycle) and
preparation workers (move liquidity to the node, record, write failures).
`setting` chooses the rails, whether the pass repeats and whether workers stop.

### PaymentJobs

`invoice`, `job`, `batch` are the three documents; `worker`, `owner`, `sweep`
the processes with the statuses of the copies they hold. The handlers
`processPaymentJob`, `queueInvoiceDocument` and `requeueStalePaymentJobs` are
split at their awaits. A locked job may look stale at any moment (its
`startedAt` may even be that of an earlier attempt). Of the batch only
"completed" decides anything, so its other statuses are one. `charged` records
the debits; that a key is debited once is what ChargeSession shows. A crash is
not counted: the attempt budget bounds how often it matters.

### RecipientClaim, WebhookDelivery, ReceiptNotification, WorkerLease

`RecipientClaim` has the `link` documents of one recipient, the `destination`
each bound and the recipient's entry `guest`; a `clerk` is a request (claim,
resend, revoke, import of a legacy link, deletion of contact data) with what it
read before its transaction. `WebhookDelivery` has one delivery `hook`, the
`postman` workers and what the `receiver` answered; the sweep takes an old lock
back, and a worker saves its own copy at the end whoever holds the delivery.
`ReceiptNotification` has an `endpoint`, its `notice`, the `messenger` workers
with numbered leases, and `told`, the messages sent before and after a removal.
`WorkerLease` has the lease document and replicas that may share an id.

## 3. Runs

| Run | Question | Bounds | Outcome |
| --- | --- | --- | --- |
| `charge_reservation` | do the source's counters follow the allocations (`LedgerBalanced`) and closed ones stay closed, through every interleaving of transactions and late observations? do the counters of a pass and its days follow the attempts (`AttemptsAccounted`), do both limits hold, can a reservation always be returned, are resolved attempts frozen, does the service implement SpendingBudget? | the ledger: two passes, a vault and a wallet, one observer, amounts to 2. Charges: three keys of 1 and 2 units over two days, a limit of 2 that may be raised to 4, 2 a day. One key on a shared pass | holds |
| `charge_session` | can retries, crashes, lost answers and sweeps send or debit a payment twice (`PaymentsSound`), use a single-use pass twice, or leave the interface of the store? | two callers with one key, a crash, a pause, an expiry; with two keys on a single-use pass through its settlement; or one key on a shared pass | holds |
| `session_lifecycle` | do limit, refund and funding agree through top-ups, closings, crashes and blind saves; do recorded successes complete? | two requests, two operations, one charge, one save, one crash | holds |
| `pass_spenders` | do schedules and metered grants keep the counters they go by and those of the grant while charges and top-ups move the others (`ReservesMatch`), is what says succeeded or settled paid (`SpendersPaid`), is a batch settled or released as a whole? | two workers on one occurrence or batch; one worker and the owner; three usage events of 1 and 2 units; or a schedule and a grant on one pass with limit and rate limits that can be missed by one unit | holds |
| `provider_payments` | is an invoice sent once and an order billed once (`SentOnce`), is what says succeeded or settled true (`OutcomeIsTrue`), are on-chain payments planned, claimed and confirmed soundly (`PsbtSound`), are vault deposits credited once and transfers conserving (`VaultSound`)? | two requests at a time: two invoices through one wallet, one through two wallets, one bill, two store payments, two transactions over one coin, or a vault with one or two deposits and two transactions | holds |
| `back_office` | is everything paid or completed charged (`PayoutsAreCharged`, `JobsAreCharged`), is a transfer repeated only for a lost answer (`TransfersOnce`), has a recipient one destination and one usable link (`ClaimsSound`)? | payouts in five settings (rails, one or two workers, a preparation worker, two cycles, stops), with at most one lost answer for each transfer of a cycle; three links and two requests; two payment workers, one invoice, two attempts | holds |
| `eventually` | does every reservation, job, webhook and receipt delivery come to an end, and do the sweeps go on when the replica that holds the lease stops? are deliveries bounded and honest? | one caller that may crash, one payment worker with two attempts and two queue requests, two processes of every other kind, any crashes | holds |
| `pass_overdrawn` | do charges, schedules and grants together stay within the limit of a pass? | as `pass_spenders`, with a charge of 4 on a limit of 5 and no top-up | violated |
| `charge_released_paid` | is a submitted charge released only after a definite failure? | as `charge_session`, one key | violated |
| `charge_after_expiry` | is an expired pass never charged? | the same | violated |
| `vault_locked_twice` | is the locked value of a secured source what was deposited? | the vault scene of `provider_payments` | violated |
| `payout_uncharged_cycle` | is a CKB settlement preceded by a Fiber payment of its own cycle? | one worker, one exit recipient, two cycles | violated |

Why the bounds suffice for the question: the ledger hazards need two holders of
one source and one stale copy; the counters need two charges on one day and one
on another, of different sizes, so that a limit can be missed by one unit; the
handler hazards need a slow or dead caller and one that takes over, and one key
is where they meet; the lifecycle needs a second operation that can be mistaken
for the first; a job, an occurrence, a batch, a delivery and a payout need a
slow worker, its successor and a last attempt; a coin needs two transactions
and a vault two deposits and a transfer with change; a link needs a claim, a
resend and what is left of an earlier one. Callers, workers, requests and
passes are interchangeable and are checked with symmetry in runs without
liveness. `CHECK_DEADLOCK FALSE` is set because all these systems may come to
rest: keys, events, attempts and requests are finite. Named bounds (`MaxCrashes`,
`MaxPauses`, `MaxQueues`, `MaxPosts`, `MaxTries`, `MaxSent`, `MaxUnheard`, `MaxCycle`, `MaxTx`,
`MaxFunding`, `MaxLinks`, `MaxBalance`, `MaxGrant`, `MaxLimit`, `LastDay`) are
constants of their modules.

A run checks conjunctions of named parts (`PsbtSound` is four properties of the
PSBT workflow, for example); each part is defined and explained beside it, and
most have a mutant of their own.

`MaxUnheard` bounds the answers lost for one transfer of a cycle, and counting
stops at `MaxSent`, one more than `TransfersOnce` then allows.

The five violated properties are statements of the repository's documents that
the code does not keep; the findings in `PROJECT.json` quote them:

- The stale-attempt sweep reads the attempts that never started and releases
  them one by one without looking again. A retry may have submitted and paid
  one in between; its reservation is then returned although the money left.
- The reservation's filter has two `$and` keys; the second replaces the first,
  which carried the expiry condition.
- A refresh counts live cells whose deposit is not credited yet; crediting it
  then adds it to the locked value again.
- A schedule or a usage event is checked against counters that charges do not
  move, and what it writes replaces `reservedMinor`, where alone a charge's
  reservation is kept: a charge and an event together overdraw the pass
  (`PassNotOverdrawn`). For the same reason the charge's release or finalization
  may then throw "could not be released/finalized consistently" although its
  payment settled (against `charge-reservations.md:15`), `reservedMinor` may stay
  below what charges hold, and a top-up, which raises `limitMinor` alone, is undone
  by the next occurrence a schedule reserves.
- `succeededScheduledPayoutCharge` finds charges of a pass and recipient without
  regard to the cycle: in the second cycle an exit payout takes the charge of
  the first for its own and settles on chain without a Fiber payment.

Noticed while modelling, without a run:

- `markChargeOutcomeUncertain` filters on the status of the attempt only, so a
  late caller overwrites the provider success another caller stored
  (`charge-reservations.md:12` makes it durable). The money is not lost: the
  next lookup finds the payment again.
- The tables in `domain/automation.ts` make a paid invoice final, but no save
  consults them: a stale copy queues it again (`automation.service.ts:769`). It
  is not debited again, because the job keeps its key.
- Revoking a schedule lists the occurrences it may release and releases them
  one by one (`paymentSchedule.service.ts:579`); one that was submitted and paid
  in between is released, although `scheduled-payments.md:140` says that an
  external success cannot remain unaccounted.
- A batch whose payment was submitted is released when a later failure is not
  retryable (`meteredPaymentWorker.service.ts:583`), although the provider may
  have paid it (`metered-payments.md:112`).
- Two replicas that run with the default worker id both take the lease and sweep
  at once (`workers/reconciliationWorker.ts:7`, `worker-reliability.md:26`).
  `HolderSweepsAlone` is about replicas with ids of their own.
- A link that has expired can be revoked by a resend, although
  `recipient-identity-and-privacy.md:28` lists expired as final; a resend writes
  `awaiting_details` over a recipient that was bound meanwhile
  (`session.service.ts:2122`); and importing a legacy link while a resend runs
  leaves two usable links. The properties except exactly these cases.
- The sync with live cells credits the change of a payout as a deposit
  (`walletFunding.service.ts:772`), and of two vault outputs of one transaction
  only one is credited (`:797`).
- A notification whose worker stops during the last attempt stays `delivering`
  for ever (`notification.service.ts:403`).
- A refresh of a BTCPay invoice decodes the expired payment request before it
  stores the status it came for (`btcpay.service.ts:378`).
- A CKB settlement and a bridge transfer can be sent twice
  (`session.service.ts:3524`, `fiberLiquidityBridge.service.ts:233`): each is sent
  first and recorded afterwards, so a stop in between, a second worker, or an
  answer of `sendTransaction` that is lost (`vaultPayout.service.ts:459`, `:545`)
  leaves nothing by which the next attempt could know. `TransfersOnce` says that
  for one worker that is not stopped the lost answers are the only reason.
- A charge whose day was read before midnight and which is inserted after it
  counts on its day, and again on the next if it has succeeded before that day's
  first charge: its creation date falls there.
- `funding-sources-and-guarantees.md` gives reclaimable as locked minus
  reserved; `recordSecuredFundingBalance` computes it from the copy it loaded,
  so an allocation that commits in between leaves it too high until the next
  refresh (allocation itself refreshes first and is not misled).
- An attempt that was marked submitted by a process that died before sending is
  looked up without success for ever: nothing in the code resolves it.
- The log entry "Session Expired - Reserve Released" is written by a sweep that
  releases nothing; the allocation of an expired pass stays active.
- A pass that expires while an operation is pending can never complete it. The
  lifecycle remembers only its last idempotency key.
- An invoice whose debit succeeded but whose answer was lost on the last
  attempt stays failed.

## 4. Fairness

`FairEventuallySpec` (run `eventually`) and `FairLifecycleSpec` (run
`session_lifecycle`) state what the code's scheduling gives:

- `Fairness` (charges): a request runs to its end unless it crashes; calls to
  the provider return or time out; leases are wall-clock time; the workers run
  in supervised loops (`worker-reliability.md`). Strong fairness for
  `BeginCharge` is a client that keeps retrying with its key, as the API asks
  it to, although its call may be refused now and then; strong fairness for
  `Recover` says a lookup repeated for ever is answered in the end.
  `ReservationsResolve` promises nothing while the pass is closed or unfunded,
  or for attempts that were marked submitted and never sent (nothing in the code
  resolves those), and speaks of passes that only charges spend.
- `JobsFairness`: workers and sweep loop under supervision. Strong fairness of
  `LockNextPaymentJob` is the queue's order by `runAfter`: a job that is ready
  again and again is taken. Crashes are unrestricted. To keep the graph small
  the owner queues an invoice again only once its job has ended and nobody is at
  work on it (`QueuedOnceEnded`); the safety run has no such restriction.
- `WebhookFairness`, `NoticeFairness`: workers poll, requests time out, an old
  lock or lease lapses and the sweep goes on. Crashes are unrestricted.
- `LeaseFairness`: the platform starts replicas, though not necessarily each of
  them; a running replica goes on; time passes. Strong fairness of
  `AcquireWorkerLease` says that a replica that finds the lease free again and
  again is not stopped every time before it takes it.
- `FairLifecycleSpec`: a running request goes on; the owner repeats it with the
  same key. A claim without a recorded provider success stays pending by
  design, so the property is about recorded successes.

## 5. Proofs

The theorems hold for every value of the constants (any passes, sources, keys,
amounts, days, callers, workers, recipients and crashes). They rest on the named
assumptions of the modules and on nothing else: sets that are counted are
finite, amounts and limits are natural numbers, a key belongs to one pass, the
statuses are those the code uses, and a pass, schedule, usage event, invoice,
link or worker exists where one is picked, and a vault cell has the minimum
capacity of one. TLC evaluates the assumptions in the runs. For each
specification the proof has the same three parts: the initial states satisfy
the inductive invariant, every action keeps it (a lemma per action or group of
actions), and it implies the properties. What the inductive invariants add to
the properties is listed below, since that is what the code relies on.

The ledger and the charges (`ChargeReservationProofs`, `ChargeSessionProofs`,
`SessionLifecycleProofs`):

- `LedgerCorrect`: `FundingSpec` keeps `FundingTypeOK` and `LedgerBalanced`
  (`SourceMatchesAllocations` and `AllocationBalanced`). The inductive invariant
  `LedgerInv` adds that an allocation that was never made authorizes nothing
  (`UnmadeIsEmpty`); without it, a first allocation could change the sums by
  more than its amount. Every allocation step changes one allocation and one
  source by the same amount (`AllocationStep`), and an observation changes
  neither counter because `SaveOver` writes only what it changed
  (`SaveOverTyped`, `SourceStep`).
- `ClosedAllocationsStayFrozen`: the action property, from the guards and
  `LedgerInv`.
- `ReservationsCorrect`: on a pass that only charges spend the counters are the
  sums over the attempts, its limit holds and a single-use one is used once; a
  day has reserved what its attempts reserve, has spent at least what those
  booked on it spent and at most what those booked or created on it did; the
  daily limit holds on every pass. The invariant `ReservationInv` adds
  `AttemptConsistent` (an attempt's status says where its money is, so a step
  cannot take it twice), that a counter not yet opened is empty, and that the
  counter of a day on which an attempt is booked is open (`BookedIsOpen`):
  otherwise opening it again could count the attempt from the history as well.
  The three steps that move money are instances of one lemma, `MovingStep`; what
  another spender writes changes a shared pass only.
- `ReservationsAlwaysReturnable`: on such a pass the errors "could not be
  released/finalized consistently" cannot happen. On a shared pass they can,
  which is why the theorem does not speak of those (`pass_overdrawn`).
- `ResolvedAttemptsStayFrozen`, `LedgerCorrectUnderCharges` (the ledger stays
  correct when charges drive it).
- `ReservationsImplementBudget`: the refinement `StoreSpec => Budget!BudgetSpec`,
  of the passes that only charges spend.
- `CallsImplementReservations`: `SessionSpec => StoreSpec`: every step of every
  handler and sweep is a step of the store or leaves it alone. `CallInv` adds
  the types of the processes and that a pass named by a caller exists.
- `PaymentsSafe`: `SessionTypeOK`, and at most one payment per key, recorded
  before it is sent, debited only if paid. `PaymentInv` adds `OneSender`: at most
  one caller stands between marking an attempt submitted and sending, and while
  it stands there nothing has been sent; and that a success a caller carries is
  a paid one.
- `StoreCorrectUnderCalls`: the store's theorems under the whole handler.
- `LifecycleCorrect`: top-ups, closings, pauses and expiries keep
  `FundingFollowsLimit`, `RefundMatchesRelease` and `ClosedHoldsNothing` next to
  running charges. `LifecycleInv` takes the ledger's and the store's invariants
  whole and adds `PassSound`, which relates the documents of a pass: an active
  allocation is authorized for the limit and the amount of a claimed top-up, and
  a pass that waits to be closed has nothing reserved and refunds what is left.
  `StoreCorrectUnderLifecycle` says that the counters, limits and ledger of the
  theorems above survive the owner's operations too.

Schedules, a metered grant and charges on one pass (`SpendersProofs`):

- `SpendersCorrect`: `SpendersSpec` keeps `SpendersTypeOK`, `ReservesMatch`,
  `SpendersPaid` and `BatchIsWhole`. Schedules and grants know nothing of each
  other; what they share are the Atomic counters of the pass, so the argument is
  one of transfers. A step of the schedules moves these counters by exactly what
  it moves `ScheduleHolds` and `ScheduleSpent` (`ScheduleMoves`), a step of the
  grant by exactly what it moves the grant's own counters (`GrantMoves`), and each
  leaves the documents of the others alone; a charge or a top-up does not touch
  them. `PassCountersMatch` follows, since
  each of the sums stays a natural number; and it is what tells a spender that
  the pass still holds what it wants to give back or debit. `CountersAgree` is kept
  because every such step writes what it changed over the Minor counters. The scenes of the
  run are restrictions of `SpendersSpec`; the theorem is about all of it at once.
- `ScheduleInv` adds `OccurrenceFacts` (an occurrence that says succeeded or spent
  was paid; one of a Fiber schedule holds nothing itself; none lies after the
  schedule's next due date, without which a success could advance the
  schedule past a date that was never paid) and what a worker or an owner's
  request may still rely on after its reads (`WorkerSound`, `RequestSound`).
- `MeteredInv` adds `BatchFacts`: a batch exists if and only if it has events; the
  events of an open one are all unsettled, those of a final one all settled or
  all given back; one that was leased accepts nothing any more, so that nobody
  can add an event to an amount that is being paid. `SettlerFacts` says that a
  worker finalizes only what was paid. That there is always a free batch number
  for an event that opens one is a count of the batches against the events
  (`NewBatchFree`).

Payments through others and the vault (`ProviderProofs`):

- `NwcCorrect`: an invoice is sent to the wallet once and a success was paid.
  `NwcInv` adds `PayersSound`: of the requests for one payment hash at most one is
  between creating the document and sending, and until it sends nothing was sent.
- `BtcpayCorrect`: an order is billed once, an invoice paid once, a settled bill
  was paid. `BtcpayInv` adds the same for the node's payments (`SendersSound`), and
  that a request holds only answers the server gave (`BillersSound`).
- `PsbtCorrect`: `PsbtSound`. `PsbtInv` adds that the chain spends a coin once
  (`MinedOnce`), that the plan in the document balances and pays more than the
  one it replaces (`PlanOf`), and what a request may rely on at each step
  (`TellerSound`).
- `VaultCorrect`: `VaultSound` and `WalletFundingTypeOK`. `VaultInv` adds `PoolSound`:
  the transfers that were sent and not yet committed consume live cells, none of
  them another's, and each consumes exactly what it pays and returns; that is why
  two requests that selected from one stale list cannot both commit, and why a
  commit moves the live capacity by exactly what it pays out (`BalanceKeeps`).
  `DeskSound` says that a request holds only cells that are on the chain, spent
  or not, and records that exist. What a request read long ago does not matter
  for the credits: the filter on the pending status and the unique indexes are
  evaluated in the write itself, so every step of a sync or a confirmation is
  one of three steps of the records (`FundingStep`), and each of these keeps
  `DepositCreditedOnce` and the confirmed records (`FundingKeeps`).
- `ProvidersCorrect`: `ProvidersTypeOK`, `SentOnce`, `OutcomeIsTrue`, `PsbtSound` and
  `VaultSound` of the composition the run explores.

The back office (`BackOfficeProofs`):

- `JobsCharged`: `JobsTypeOK` and `JobsAreCharged`. `JobsInv` adds `WorkerHonest`:
  a worker that is about to write paid or succeeded has charged the invoice or
  found it charged, and a roll-up that was read as completed and not yet saved
  was true when it was read; charges are never taken back, so it still is.
- `PayoutsCorrect`: `PayoutsAreCharged` and `TransfersOnce`, for any number of
  recipients, cycles and workers. `PayoutInv` adds `ChargeFacts` (a success in a
  later cycle comes after everybody's success in the first, which is why a
  lookup without regard to the cycle pays nobody for nothing in a one-off pass),
  `SettleFacts` and `BridgeFacts`. These say, of a worker that is alone and not
  stopped, where every transfer is that was sent and whose answer was not lost
  (`Outstanding`): it is recorded, or in the worker's hands. A worker therefore
  sends only when all earlier transfers of the cycle were lost, and the count of
  transfers exceeds that of lost answers by at most one.
- `ClaimsCorrect`: one destination, one usable link, spent links are final.
  `ClaimInv` adds which requests have a link in hand (`ClerkFacts`) and that only
  the first link can be an older pass's embedded one (`LinkFacts`).
- `BackOfficeCorrect`: the same of the composition the run explores.

The workers (`WorkersProofs`):

- `DeliveriesHonest`: `WebhookHonest`. `HookInv` adds that a worker's copy counts
  no attempt that was not made and that the outcome it carries is one it met;
  `CountInv` that no two workers hold the same claim and that a delivery comes
  back after its last attempt only for a claim made before it, which bounds the
  posts by less than twice the limit.
- `LeaseExcludes`: `HolderSweepsAlone`. `LeaseInv` adds `WithinIsHeld`: what a
  replica believes of its lease is what the document says.
- `NoticesCorrect`: `NoticesSound`. `NoticeInv` adds that every message sent and
  every worker about to send one has a claim of its own, so that messages and
  senders together are at most the attempts (`NoticeCount`), and that a delivery
  that has ended has no lease (`NoticeFacts`).
- `WorkersCorrect`: the same of the composition the run explores.

Sums are cardinalities of finite sets (`Totals`), because what a recursive
definition computes cannot be proved by induction over data here; the lemmas
of `TotalsProofs` (a change at one point, a split, an upper bound) replace it.

Only model-checked: the liveness properties (`ReservationsResolve`,
`RecordedSuccessCompletes`, `JobsFinish`, `DeliveriesEnd`, `LeasedSweepsGoOn`),
since fairness is out of the prover's reach. Every safety property of the
passing runs is stated by a theorem.

## 6. Not modelled

- Authentication, stream tickets, API keys and rate limits: one document each,
  read or written by one conditional update; without the signatures there is no
  protocol left.
- Vault v2 (`domain/vaultV2.ts`, called by no service), the money conversions
  and the lock script: pure functions over byte and decimal strings. Amounts
  here are the atomic units the conversions produce, as small naturals.
- Migrations, which run while the service is stopped; HTTP routes, DTOs, live
  events, logs and audit entries; the probes of the Fiber node.
- Of modelled components: vault-rail charges (they skip the provider steps and
  end in the payout claim); keysend payments in chunks; the creation of
  automation invoices with its check of the pass's capacity
  (`automation.service.ts:495`, which sums and inserts in two steps); the
  verification of BTCPay permissions; the encryption and the relay protocol of
  Nostr; the scripts of a signed transaction; the money-ledger sweep, which
  only reports.
- What the models of a component leave open or leave out: a BTCPay status that is
  not known falls through to failed; a recipient's claim reads the clock before
  its transaction, so a link may be used in the moment it expires; the release
  of a worker lease may fail silently, which the others see as a holder that
  stopped; deliveries of notifications are deleted after 90 days.
- What the properties except, where the code does not keep more: replicas with
  the default worker id (`HolderSweepsAlone`), stops and second workers
  (`TransfersOnce`), a notice whose last attempt was abandoned (`DeliveriesEnd`),
  attempts marked and never sent (`ReservationsResolve`), the import of a legacy
  link during a resend (`ClaimsSound`), and payments that were made and then
  released as unpaid (`SpendersPaid` says that what is settled was paid, not the
  converse). Section 3 lists each with its line.
- Database errors other than crashes and the lost transfers above, and Mongo's
  own replication.

## 7. Plan

1. One abstract at-most-once payment that NwcPayment and the Lightning half of
   BtcpayGateway both implement.
2. Vault-rail charges as further steps of ChargeSession; `VaultV2` and the money
   conversions as operators against reference definitions.

The runs answer one question each; where a later module gives a stronger
answer, the weaker run makes room for it.
