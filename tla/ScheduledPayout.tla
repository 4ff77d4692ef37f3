--------------------------- MODULE ScheduledPayout ---------------------------
(***************************************************************************)
(* Scheduled payouts of one pass: runDueSessionPayouts, the liquidity      *)
(* preparation that runs beside it (session.service.ts) and the bridge     *)
(* that moves vault funds to the Fiber node for them                       *)
(* (fiberLiquidityBridge.service.ts).  The server loop, the payment worker *)
(* and the owner's sync route all start these workers, so several run at   *)
(* once over the same pass.                                                *)
(*                                                                         *)
(* A recipient is paid through its Fiber invoice, or, when it has a CKB    *)
(* address only, through the exit gateway: a Fiber payment to an exit      *)
(* invoice and then a CKB settlement.  chargeSession is used by its        *)
(* promise (ChargeSession): one success per idempotency key.               *)
(***************************************************************************)
EXTENDS Integers, Sequences, FiniteSets

CONSTANTS PayWorker, PrepWorker,
          Settings,     \* ways a pass may be paid: [rails, recurring, stops, crew]
          MaxCycle,     \* bound: payout cycles
          MaxSent,      \* bound: transfers of a kind counted for a recipient
          MaxUnheard    \* bound: answers lost for them

ASSUME PayoutAssumption ==
    /\ \A s \in Settings : /\ s.rails \in Seq({"invoice", "exit"})
                           /\ s.recurring \in BOOLEAN /\ s.stops \in BOOLEAN
                           /\ s.crew \subseteq PayWorker \cup PrepWorker
    /\ MaxCycle \in Nat \ {0} /\ MaxSent \in Nat \ {0, 1} /\ MaxUnheard \in Nat
    /\ IsFiniteSet(PayWorker \cup PrepWorker)

VARIABLES setting,      \* how this pass is paid: see Settings
          payPass,      \* status and current cycle (nextReleaseAt)
          payee,       \* pass.recipientWallets
          payCharge,    \* outcome of the charge with each idempotency key
          payoutSent,      \* transfers and settlements given to the chain
          crew       \* the running workers
payoutVars == <<setting, payPass, payee, payCharge, payoutSent, crew>>

Payee == DOMAIN setting.rails
PayoutWorker == PayWorker \cup PrepWorker
PayoutCycle == 1..MaxCycle
FailureCodes == {"none", "pendingCode", "retryable", "final"}

FreshWallet == [status |-> "pending", code |-> "none", old |-> TRUE, bridge |-> FALSE,
                channel |-> FALSE, settlement |-> FALSE,
                receipt |-> "none", reusable |-> TRUE]
IdlePayoutWorker == [pc |-> "idle", i |-> 1, todo |-> {}, settled |-> {}, cycle |-> 1,
                     code |-> "none", kind |-> "none"]

\* How often a transfer was sent, and how often the answer was lost.
NoTransfer == [sent |-> 0, unheard |-> 0]

ScheduledPayoutInit ==
    /\ setting \in Settings
    /\ payPass = [status |-> "active", cycle |-> 1]
    /\ payee = [i \in Payee |-> FreshWallet]
    /\ payCharge = [k \in Payee \X PayoutCycle |-> "none"]
    /\ payoutSent = [i \in Payee |-> [bridge |-> [c \in PayoutCycle |-> NoTransfer],
                                      settlement |-> [c \in PayoutCycle |-> NoTransfer]]]
    /\ crew = [w \in PayoutWorker |-> IdlePayoutWorker]

----------------------------------------------------------------------------
(* What the workers decide from a copy of the recipients.                  *)
PayeeInFlight(x) ==
    /\ x.status # "paid"
    /\ x.status = "processing" \/ x.bridge \/ x.channel \/ x.code = "pendingCode"
EarlierRecipientHasInFlightLiquidity(copy, i) == \E j \in 1..(i - 1) : PayeeInFlight(copy[j])

DestinationUsable(i, x) == setting.recurring /\ setting.rails[i] = "invoice" => x.reusable
PayeeRetryable(x) == x.status = "failed" /\ x.code = "retryable" /\ x.old
StaleProcessing(x) == x.status = "processing" /\ x.old
Claimable(x) == x.status = "pending" \/ PayeeRetryable(x) \/ StaleProcessing(x)
IsPayoutRecipientProcessable(i, x) == DestinationUsable(i, x) /\ Claimable(x)

IsLiquidityRecipientPreparable(i, x) ==
    /\ DestinationUsable(i, x)
    /\ Claimable(x)
    /\ x.code = "pendingCode" => x.old

----------------------------------------------------------------------------
(* The loops.                                                              *)
PayAt(w, pc) == crew[w].pc = pc
PayNow(w, rec) == crew' = [crew EXCEPT ![w] = rec]
PayGo(w, pc) == PayNow(w, [crew[w] EXCEPT !.pc = pc])
PayeeOf(w) == crew[w].i
NextRecipient(w) == 
    [crew[w] EXCEPT !.pc = "next", !.i = @ + 1, !.code = "none", !.kind = "none",
                    !.todo = @ \ {PayeeOf(w)}, !.settled = @ \ {PayeeOf(w)}]
WritesPayee(w, fields) == payee' = [payee EXCEPT ![PayeeOf(w)] = fields]

\* The recipients a worker goes on to, decided from the copy it read.
Todo(w) ==
    {i \in Payee : /\ ~EarlierRecipientHasInFlightLiquidity(payee, i)
                   /\ IF w \in PayWorker THEN IsPayoutRecipientProcessable(i, payee[i])
                                         ELSE IsLiquidityRecipientPreparable(i, payee[i])}

\* Both workers read the pass once; what they take from the copy later is which
\* recipients to go on to and which of them have a settlement.
ScanDue(w) ==
    /\ w \in setting.crew /\ PayAt(w, "idle") /\ payPass.status = "active"
    /\ w \in PayWorker => \E i \in Payee : Claimable(payee[i])
    /\ PayNow(w, [IdlePayoutWorker EXCEPT !.pc = "next", !.todo = Todo(w),
                     !.settled = {i \in Todo(w) : payee[i].settlement}, !.cycle = payPass.cycle])
    /\ UNCHANGED <<payPass, payee, payCharge, payoutSent>>

LoopEnds(w) ==
    /\ PayAt(w, "next") /\ PayeeOf(w) \notin Payee
    /\ PayNow(w, IF w \in PayWorker THEN [IdlePayoutWorker EXCEPT !.pc = "finalize"]
                 ELSE IdlePayoutWorker)
    /\ UNCHANGED <<payPass, payee, payCharge, payoutSent>>

SkipRecipient(w) ==
    /\ PayAt(w, "next") /\ PayeeOf(w) \in Payee
    /\ PayeeOf(w) \notin crew[w].todo \/ (w \in PayWorker /\ ~Claimable(payee[PayeeOf(w)]))
    /\ PayNow(w, NextRecipient(w))
    /\ UNCHANGED <<payPass, payee, payCharge, payoutSent>>

ClaimRecipientWalletForPayout(w) ==
    /\ w \in PayWorker /\ PayAt(w, "next")
    /\ PayeeOf(w) \in crew[w].todo /\ Claimable(payee[PayeeOf(w)])
    /\ WritesPayee(w, [payee[PayeeOf(w)] EXCEPT !.status = "processing", !.code = "none", !.old = FALSE])
    /\ PayGo(w, "liquidity")
    /\ UNCHANGED <<payPass, payCharge, payoutSent>>

PrepareRecipient(w) ==
    /\ w \in PrepWorker /\ PayAt(w, "next") /\ PayeeOf(w) \in crew[w].todo
    /\ PayGo(w, "liquidity")
    /\ UNCHANGED <<payPass, payee, payCharge, payoutSent>>

----------------------------------------------------------------------------
(* ensureVaultFundedFiberLiquidity                                         *)
PayFails(w, code) == PayNow(w, [crew[w] EXCEPT !.pc = "fail", !.code = code])

\* The node is unreachable, has no funding address, or a transfer is refused.
LiquidityFails(w) ==
    /\ PayAt(w, "liquidity") /\ \E code \in {"retryable", "final"} : PayFails(w, code)
    /\ UNCHANGED <<payPass, payee, payCharge, payoutSent>>

LiquidityReady(w) ==
    /\ PayAt(w, "liquidity") /\ payee[PayeeOf(w)].channel
    /\ PayGo(w, IF w \in PayWorker THEN "pay" ELSE "ready")
    /\ UNCHANGED <<payPass, payee, payCharge, payoutSent>>

\* The bridge transaction is not committed yet, or the channel is not active.
LiquidityPending(w) ==
    /\ PayAt(w, "liquidity") /\ payee[PayeeOf(w)].bridge
    /\ PayFails(w, "pendingCode")
    /\ UNCHANGED <<payPass, payee, payCharge, payoutSent>>

CountedSend(t) == [t EXCEPT !.sent = IF @ < MaxSent THEN @ + 1 ELSE @]
Unheard(t) == [t EXCEPT !.unheard = @ + 1]

\* Mutant: the recorded bridge transfer is not looked at.
MayAlwaysBridge(w, kind) == kind = "bridge" \/ payee[PayeeOf(w)].bridge

LiquidityDue(w, kind) == kind = "bridge" <=> ~payee[PayeeOf(w)].bridge

\* A bridge transfer, a top-up or a channel open is sent before it is recorded.
SendLiquidity(w, kind) ==
    /\ PayAt(w, "liquidity")
    /\ LiquidityDue(w, kind)
    /\ payoutSent' = IF kind # "bridge" THEN payoutSent
          ELSE [payoutSent EXCEPT ![PayeeOf(w)].bridge[crew[w].cycle] = CountedSend(@)]
    /\ PayNow(w, [crew[w] EXCEPT !.pc = "record", !.kind = kind])
    /\ UNCHANGED <<payPass, payee, payCharge>>

RecordLiquidity(w) ==
    /\ PayAt(w, "record")
    /\ LET x == payee[PayeeOf(w)] IN
       WritesPayee(w, CASE crew[w].kind = "bridge" -> [x EXCEPT !.bridge = TRUE]
                   [] crew[w].kind = "topUp" -> x
                   [] crew[w].kind = "channel" -> [x EXCEPT !.channel = TRUE])
    /\ PayFails(w, "pendingCode")
    /\ UNCHANGED <<payPass, payCharge, payoutSent>>

\* sendTransaction throws although the node took the transaction, or the write of
\* its hash fails: the liquidity that was sent is not recorded.
LiquidityUnheard(w) ==
    /\ PayAt(w, "record")
    /\ payoutSent[PayeeOf(w)].bridge[crew[w].cycle].unheard < MaxUnheard
    /\ payoutSent' = IF crew[w].kind # "bridge" THEN payoutSent
          ELSE [payoutSent EXCEPT ![PayeeOf(w)].bridge[crew[w].cycle] = Unheard(@)]
    /\ \E code \in {"retryable", "final"} : PayFails(w, code)
    /\ UNCHANGED <<payPass, payee, payCharge>>

----------------------------------------------------------------------------
(* The payment of one recipient.                                           *)
PayoutKey(w) == <<PayeeOf(w), crew[w].cycle>>

\* Mutant: any attempt counts, not only those that succeeded.
AttemptedBefore(i) == \E c \in PayoutCycle : payCharge[<<i, c>>] # "none"

\* succeededScheduledPayoutSummary adds up the recipient's successes of every
\* cycle; the exit rail charges only what is missing to the amount.
SucceededBefore(i) == \E c \in PayoutCycle : payCharge[<<i, c>>] = "succeeded"
NothingLeftToCharge(w) == setting.rails[PayeeOf(w)] = "exit" /\ SucceededBefore(PayeeOf(w))

ChargeRecipient(w) ==
    /\ PayAt(w, "pay") /\ ~NothingLeftToCharge(w)
    /\ payCharge' = [payCharge EXCEPT ![PayoutKey(w)] = "succeeded"]
    /\ PayGo(w, IF setting.rails[PayeeOf(w)] = "exit" THEN "settle" ELSE "paid")
    /\ UNCHANGED <<payPass, payee, payoutSent>>

AlreadyCharged(w) ==
    /\ PayAt(w, "pay") /\ NothingLeftToCharge(w)
    /\ PayGo(w, "settle")
    /\ UNCHANGED <<payPass, payee, payCharge, payoutSent>>

\* The charge is refused, fails, or its outcome stays unknown; the same key
\* is tried again later.
ChargeFails(w) ==
    /\ PayAt(w, "pay") /\ payCharge[PayoutKey(w)] # "succeeded"
    /\ payCharge' = [payCharge EXCEPT ![PayoutKey(w)] = "failed"]
    /\ \E code \in FailureCodes \ {"none"} : PayFails(w, code)
    /\ UNCHANGED <<payPass, payee, payoutSent>>

\* Mutant: the recorded settlement is not looked at.
SettlementIgnored(w) == crew[w].pc # "settle"

HasSettlement(w) == PayeeOf(w) \in crew[w].settled

\* executeFiberExitCkbSettlement, unless the copy already has a settlement.
SendSettlement(w) ==
    /\ PayAt(w, "settle") /\ ~HasSettlement(w)
    /\ payoutSent' = [payoutSent EXCEPT ![PayeeOf(w)].settlement[crew[w].cycle] = CountedSend(@)]
    /\ PayGo(w, "settled")
    /\ UNCHANGED <<payPass, payee, payCharge>>

SettlementFails(w) ==
    /\ PayAt(w, "settle") /\ ~HasSettlement(w)
    /\ \E code \in {"retryable", "final"} : PayFails(w, code)
    /\ UNCHANGED <<payPass, payee, payCharge, payoutSent>>

RecordSettlement(w) ==
    /\ PayAt(w, "settled")
    /\ WritesPayee(w, [payee[PayeeOf(w)] EXCEPT !.settlement = TRUE])
    /\ PayGo(w, "paid")
    /\ UNCHANGED <<payPass, payCharge, payoutSent>>

\* As LiquidityUnheard: FIBER_EXIT_SETTLEMENT_TX_FAILED is retried.
SettlementUnheard(w) ==
    /\ PayAt(w, "settled")
    /\ payoutSent[PayeeOf(w)].settlement[crew[w].cycle].unheard < MaxUnheard
    /\ payoutSent' = [payoutSent EXCEPT ![PayeeOf(w)].settlement[crew[w].cycle] = Unheard(@)]
    /\ \E code \in {"retryable", "final"} : PayFails(w, code)
    /\ UNCHANGED <<payPass, payee, payCharge>>

KeepSettlement(w) ==
    /\ PayAt(w, "settle") /\ HasSettlement(w)
    /\ PayGo(w, "paid")
    /\ UNCHANGED <<payPass, payee, payCharge, payoutSent>>

MarkRecipientWalletPaid(w) ==
    /\ PayAt(w, "paid")
    /\ WritesPayee(w, [payee[PayeeOf(w)] EXCEPT !.status = "paid", !.code = "none", !.old = TRUE])
    /\ PayGo(w, "receipt")
    /\ UNCHANGED <<payPass, payCharge, payoutSent>>

SendPayoutReceiptIfNeeded(w) ==
    /\ PayAt(w, "receipt")
    /\ \E outcome \in {"sent", "failed"} : WritesPayee(w, [payee[PayeeOf(w)] EXCEPT !.receipt = outcome])
    /\ PayNow(w, NextRecipient(w))
    /\ UNCHANGED <<payPass, payCharge, payoutSent>>

\* A receipt that failed is sent again from the stored proof.
RunPayoutReceiptNotifications(i) ==
    /\ payee[i].status = "paid" /\ payee[i].receipt = "failed"
    /\ payee' = [payee EXCEPT ![i].receipt = "sent"]
    /\ UNCHANGED <<payPass, payCharge, payoutSent, crew>>

MarkRecipientWalletFailure(w) ==
    /\ w \in PayWorker /\ PayAt(w, "fail")
    /\ WritesPayee(w, [payee[PayeeOf(w)] EXCEPT
            !.status = IF crew[w].code = "pendingCode" THEN "processing" ELSE "failed",
            !.code = crew[w].code, !.old = FALSE])
    /\ PayNow(w, IF crew[w].code = "pendingCode"
                 THEN [IdlePayoutWorker EXCEPT !.pc = "finalize"] ELSE NextRecipient(w))
    /\ UNCHANGED <<payPass, payCharge, payoutSent>>

MarkRecipientWalletLiquidityPreparationFailure(w) ==
    /\ w \in PrepWorker /\ PayAt(w, "fail")
    /\ WritesPayee(w, [payee[PayeeOf(w)] EXCEPT
            !.status = IF crew[w].code = "pendingCode" THEN "pending" ELSE "failed",
            !.code = crew[w].code, !.old = FALSE])
    /\ PayNow(w, IF crew[w].code = "pendingCode" THEN IdlePayoutWorker ELSE NextRecipient(w))
    /\ UNCHANGED <<payPass, payCharge, payoutSent>>

ClearRecipientWalletFailure(w) ==
    /\ w \in PrepWorker /\ PayAt(w, "ready")
    /\ WritesPayee(w, [payee[PayeeOf(w)] EXCEPT !.code = "none"])
    /\ PayNow(w, NextRecipient(w))
    /\ UNCHANGED <<payPass, payCharge, payoutSent>>

----------------------------------------------------------------------------
(* finalizePayoutCycleIfComplete: read, then save the next cycle or close. *)
\* Mutant: a failed recipient is finished too.
NoPayeeWaits == \A i \in Payee : payee[i].status \in {"paid", "failed"}

AllPayeesPaid == \A i \in Payee : payee[i].status = "paid"

FinalizeReads(w) ==
    /\ PayAt(w, "finalize")
    /\ IF payPass.status = "active" /\ AllPayeesPaid
       THEN PayNow(w, [IdlePayoutWorker EXCEPT !.pc = "advance", !.cycle = payPass.cycle])
       ELSE PayNow(w, IdlePayoutWorker)
    /\ UNCHANGED <<payPass, payee, payCharge, payoutSent>>

\* The save replaces every recipient and keeps only its name and destination.
ResetWallet == [FreshWallet EXCEPT !.reusable = FALSE]

AdvanceCycle(w) ==
    /\ PayAt(w, "advance") /\ setting.recurring /\ crew[w].cycle < MaxCycle
    /\ payPass' = [payPass EXCEPT !.cycle = crew[w].cycle + 1]
    /\ payee' = [i \in Payee |-> ResetWallet]
    /\ PayNow(w, IdlePayoutWorker)
    /\ UNCHANGED <<payCharge, payoutSent>>

SettlePass(w) ==
    /\ PayAt(w, "advance") /\ ~(setting.recurring /\ crew[w].cycle < MaxCycle)
    /\ payPass' = [payPass EXCEPT !.status = "settled"]
    /\ PayNow(w, IdlePayoutWorker)
    /\ UNCHANGED <<payee, payCharge, payoutSent>>

----------------------------------------------------------------------------
\* A minute passes since the last attempt of a recipient.
MinutePasses(i) ==
    /\ ~payee[i].old
    /\ payee' = [payee EXCEPT ![i].old = TRUE]
    /\ UNCHANGED <<payPass, payCharge, payoutSent, crew>>

WorkerStops(w) ==
    /\ setting.stops /\ crew[w].pc # "idle" /\ PayNow(w, IdlePayoutWorker)
    /\ UNCHANGED <<payPass, payee, payCharge, payoutSent>>

LiquidityNext(w) ==
    \/ LiquidityFails(w) \/ LiquidityReady(w) \/ LiquidityPending(w) \/ RecordLiquidity(w)
    \/ LiquidityUnheard(w)
    \/ \E kind \in {"bridge", "topUp", "channel"} : SendLiquidity(w, kind)

PaymentNext(w) ==
    \/ ChargeRecipient(w) \/ AlreadyCharged(w) \/ ChargeFails(w)
    \/ SendSettlement(w) \/ SettlementFails(w) \/ RecordSettlement(w) \/ SettlementUnheard(w)
    \/ KeepSettlement(w)
    \/ MarkRecipientWalletPaid(w) \/ SendPayoutReceiptIfNeeded(w)
    \/ MarkRecipientWalletFailure(w)

LoopNext(w) ==
    \/ ScanDue(w) \/ LoopEnds(w) \/ SkipRecipient(w)
    \/ ClaimRecipientWalletForPayout(w) \/ PrepareRecipient(w)
    \/ MarkRecipientWalletLiquidityPreparationFailure(w) \/ ClearRecipientWalletFailure(w)
    \/ FinalizeReads(w) \/ AdvanceCycle(w) \/ SettlePass(w) \/ WorkerStops(w)

ScheduledPayoutNext ==
    /\ \/ \E w \in PayoutWorker : LoopNext(w) \/ LiquidityNext(w) \/ PaymentNext(w)
       \/ \E i \in Payee : MinutePasses(i) \/ RunPayoutReceiptNotifications(i)
    /\ UNCHANGED setting

ScheduledPayoutSpec == ScheduledPayoutInit /\ [][ScheduledPayoutNext]_payoutVars
----------------------------------------------------------------------------
\* The values each variable may have.
PayoutTypeOK ==
    /\ payPass.status \in {"active", "settled"} /\ payPass.cycle \in PayoutCycle
    /\ \A i \in Payee : /\ payee[i].status \in {"pending", "processing", "paid", "failed"}
                        /\ payee[i].code \in FailureCodes
    /\ \A k \in DOMAIN payCharge : payCharge[k] \in {"none", "failed", "succeeded"}
    /\ \A w \in PayoutWorker : crew[w].i \in 1..(Len(setting.rails) + 1)

ChargedNow(i) == payCharge[<<i, payPass.cycle>>] = "succeeded"

\* A recipient of a one-off pass is shown as paid, gets a receipt or a CKB
\* settlement only after its charge to the pass succeeded, whichever workers
\* overlap, stop or overwrite each other's status (executeFiberExitPayout,
\* markRecipientWalletPaid).
PaidIsCharged ==
    ~setting.recurring => \A i \in Payee :
        (\/ payee[i].status = "paid" \/ payee[i].receipt = "sent"
         \/ payoutSent[i].settlement[payPass.cycle].sent > 0) => ChargedNow(i)

\* A payout is sent again only for an answer that was lost.
ResentForAnswers(t) == t.sent <= 1 + t.unheard

\* While one payout worker runs and is not stopped, a recipient is settled on
\* the chain once in a cycle and once more for every lost answer, although the
\* preparation worker may put a paid recipient back to pending or failed
\* (fiberExitSettlementTxHash).
SettledOnce ==
    (~setting.stops /\ Cardinality(setting.crew \cap PayWorker) = 1) =>
        \A i \in Payee, c \in PayoutCycle : ResentForAnswers(payoutSent[i].settlement[c])

\* A payout worker that runs alone and is not stopped sends the bridge transfer
\* of a recipient once a cycle and once more for every lost answer, however often
\* the payout is retried while the transfer or the channel is pending.
BridgedOnce ==
    (~setting.stops /\ Cardinality(setting.crew) = 1) =>
        \A i \in Payee, c \in PayoutCycle : ResentForAnswers(payoutSent[i].bridge[c])

\* A pass is closed, or moves to its next cycle, only after every recipient of
\* the finished cycle was charged (finalizePayoutCycleIfComplete).
FinishedCycleIsCharged ==
    \A i \in Payee : (payPass.status = "settled" /\ ~setting.recurring) \/ payPass.cycle > 1
        => payCharge[<<i, 1>>] = "succeeded"

\* Every CKB settlement belongs to a Fiber payment of the same cycle:
\* docs/vault-fiber-money-model.md describes the exit path so.
SettlementIsCharged ==
    \A i \in Payee, c \in PayoutCycle :
        payoutSent[i].settlement[c].sent > 0 => payCharge[<<i, c>>] = "succeeded"

\* Money leaves for a recipient, and a cycle ends, only for a charge of the pass.
PayoutsAreCharged == PaidIsCharged /\ FinishedCycleIsCharged

\* Only stops, a second worker and lost answers make the workers send a transfer twice.
TransfersOnce == SettledOnce /\ BridgedOnce
=============================================================================
