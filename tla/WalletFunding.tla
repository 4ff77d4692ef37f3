---------------------------- MODULE WalletFunding ----------------------------
(***************************************************************************)
(* Deposits into one wallet's CKB vault and transfers out of it:           *)
(* walletFunding.service.ts (request, sync, confirm), the queries of       *)
(* ckbChain.service.ts, the transfers of vaultPayout.service.ts and the    *)
(* balance refresh of session.service.ts.                                  *)
(*                                                                         *)
(* The chain is the sequence of committed transactions that touch the      *)
(* vault.  An out point <<i, k>> is output k of the i-th of them.  A desk  *)
(* is one request being served; everything it read before an await is in   *)
(* its record and may be out of date when it is used.                      *)
(***************************************************************************)
EXTENDS Integers, Sequences, FiniteSets, FiniteSetsExt, Totals

CONSTANTS Desk,            \* requests served at the same time
          Deposits,        \* the transactions users may send: their vault outputs
          RequestAmounts,  \* amounts of createWalletFundingRequest
          PayoutAmounts,   \* amounts of a payout or of a liquidity bridge transfer
          MinCell,         \* capacity a vault cell occupies at least
          MaxTx,           \* bound: transactions that touch the vault
          MaxFunding       \* bound: funding records

ASSUME VaultAssumption ==
    /\ MinCell \in Nat \ {0} /\ MaxTx \in Nat /\ MaxFunding \in Nat
    /\ RequestAmounts \subseteq Nat \ {0} /\ PayoutAmounts \subseteq Nat \ {0}
    /\ \A d \in Deposits : d \in Seq(Nat) /\ \A i \in DOMAIN d : d[i] >= MinCell

VARIABLES chain,    \* committed transactions, oldest first
          pool,     \* transfers sent and not yet committed
          fund,     \* WalletFunding records in the order they were created
          balance,  \* Wallet.balanceMinor
          source,   \* the secured FundingSource: does it exist, its lockedMinor
          spent,    \* what the passes of the wallet have spent through the vault
          desk
vaultVars == <<chain, pool, fund, balance, source, spent, desk>>

Point == Nat \X Nat
NoOutPoint == <<0, 0>>
TransactionRecord == [outs : Seq(Nat), inputs : SUBSET Point, paid : Nat]
FundingRecord == [status : {"pending", "confirmed"}, amount : Nat, proof : Nat, outPoint : Point]
DeskRecord ==
    [pc : {"idle", "list", "match", "recovered", "confirm", "overview", "refresh", "transfer",
           "sent"},
     pending : SUBSET [id : Nat, amount : Nat], cells : SUBSET Point, used : SUBSET Point,
     recover : BOOLEAN, at : Nat, funded : Nat, spent : Nat, amount : Nat]

Transaction(outs, inputs, paid) == [outs |-> outs, inputs |-> inputs, paid |-> paid]
IsInternal(tx) == tx.inputs # {}
IdleDesk == [pc |-> "idle", pending |-> {}, cells |-> {}, used |-> {},
             recover |-> FALSE, at |-> 0, funded |-> 0, spent |-> 0, amount |-> 0]

WalletFundingInit ==
    /\ chain = <<>> /\ pool = {} /\ fund = <<>>
    /\ balance = 0 /\ source = [exists |-> FALSE, locked |-> 0] /\ spent = 0
    /\ desk = [d \in Desk |-> IdleDesk]

----------------------------------------------------------------------------
(* The chain.                                                              *)
OutPoints == UNION {{<<i, k>> : k \in DOMAIN chain[i].outs} : i \in DOMAIN chain}
Capacity(p) == chain[p[1]].outs[p[2]]
SpentPoints == UNION {chain[i].inputs : i \in DOMAIN chain}
Before(p, q) == p[1] < q[1] \/ (p[1] = q[1] /\ p[2] < q[2])
First(p, points) == p \in points /\ \A q \in points \ {p} : Before(p, q)

\* The indexer lists the live cells in the order of the chain.
ListLiveVaultCells == OutPoints \ SpentPoints
CapacityOf(points) == Total([p \in points |-> Capacity(p)])
LiveCapacity == CapacityOf(ListLiveVaultCells)
TransactionSpendsLock(p) == IsInternal(chain[p[1]])

\* A user's wallet sends CKB to the vault address and the transaction commits.
UserDeposits(outs) ==
    /\ Len(chain) < MaxTx
    /\ chain' = Append(chain, Transaction(outs, {}, 0))
    /\ UNCHANGED <<pool, fund, balance, source, spent, desk>>

\* A sent transfer commits; a cell can be consumed once.
CommitTransfer(tx) ==
    /\ tx \in pool /\ Len(chain) < MaxTx
    /\ chain' = Append(chain, tx)
    /\ pool' = pool \ {tx}
    /\ UNCHANGED <<fund, balance, source, spent, desk>>

----------------------------------------------------------------------------
(* Funding records and the transaction that credits one.                   *)
PendingFunding(amount) ==
    [status |-> "pending", amount |-> amount, proof |-> 0, outPoint |-> NoOutPoint]
Confirmed == {f \in DOMAIN fund : fund[f].status = "confirmed"}
UsedVaultOutPoints == {fund[f].outPoint : f \in Confirmed}
AmountOf(f) == fund[f].amount
FundedMinor == Total([f \in Confirmed |-> AmountOf(f)])

\* Mutant: the indexes were never created.
IndexesMissing(f, p) == f \in DOMAIN fund /\ p # NoOutPoint

\* The unique sparse indexes on proofId and chainOutPoint.
IndexesAdmit(f, p) ==
    \A g \in Confirmed \ {f} : fund[g].proof # p[1] /\ fund[g].outPoint # p

\* Mutant: the update does not filter on the pending status.
AppliesWhatever(f, p) == IndexesAdmit(f, p)

AppliesTo(f, p) == fund[f].status = "pending" /\ IndexesAdmit(f, p)
AlreadyApplied(f, p) == fund[f].status = "confirmed" /\ fund[f].outPoint = p
ApplyThrows(f, p) == ~AppliesTo(f, p) /\ ~AlreadyApplied(f, p)

RecordSecuredFundingProof(amount) ==
    [exists |-> TRUE, locked |-> source.locked + amount]

\* What the transaction writes: the record, the wallet and the secured source.
ApplyConfirmedFunding(f, p) ==
    IF AppliesTo(f, p)
    THEN /\ fund' = [fund EXCEPT ![f] = [status |-> "confirmed", amount |-> Capacity(p),
                                         proof |-> p[1], outPoint |-> p]]
         /\ balance' = balance + Capacity(p)
         /\ source' = RecordSecuredFundingProof(Capacity(p))
    ELSE UNCHANGED <<fund, balance, source>>

RequestAllowed(amount) == amount >= MinCell

CreateWalletFundingRequest(amount) ==
    /\ Len(fund) < MaxFunding /\ RequestAllowed(amount)
    /\ fund' = Append(fund, PendingFunding(amount))
    /\ UNCHANGED <<chain, pool, balance, source, spent, desk>>

----------------------------------------------------------------------------
(* syncWalletFunding                                                       *)
At(d, pc) == desk[d].pc = pc
Desks(d, rec) == desk' = [desk EXCEPT ![d] = rec]
Go(d, pc) == Desks(d, [desk[d] EXCEPT !.pc = pc])

\* Handled in the order of their creation.
PendingRequests == {[id |-> f, amount |-> fund[f].amount] : f \in DOMAIN fund \ Confirmed}

SyncReadsRecords(d) ==
    /\ At(d, "idle")
    /\ Desks(d, [IdleDesk EXCEPT !.pc = "list", !.pending = PendingRequests,
                     !.used = UsedVaultOutPoints,
                     !.recover = Confirmed = {} /\ PendingRequests = {}])
    /\ UNCHANGED <<chain, pool, fund, balance, source, spent>>

SyncListsCells(d) ==
    /\ At(d, "list")
    /\ Desks(d, [desk[d] EXCEPT !.pc = "match", !.cells = ListLiveVaultCells])
    /\ UNCHANGED <<chain, pool, fund, balance, source, spent>>

\* The listed cells that are unused and large enough for a request.
CellsFor(d, amount) == {p \in desk[d].cells \ desk[d].used : Capacity(p) >= amount}

SyncMatchesPending(d) ==
    /\ At(d, "match")
    /\ \E r \in desk[d].pending :
         LET cells == CellsFor(d, r.amount)
             next == [desk[d] EXCEPT !.pending = @ \ {r}]
         IN /\ \A other \in desk[d].pending : r.id <= other.id
            /\ \/ cells = {} /\ Desks(d, next) /\ UNCHANGED <<fund, balance, source>>
               \/ \E p \in cells :
                    /\ First(p, cells)
                    /\ ApplyConfirmedFunding(r.id, p)
                    /\ Desks(d, IF ApplyThrows(r.id, p) THEN IdleDesk
                                ELSE [next EXCEPT !.used = @ \cup {p}])
    /\ UNCHANGED <<chain, pool, spent>>

\* A failed look-up of the transaction counts as internal change.
IsInternalVaultChange(p, lookupFails) == lookupFails \/ TransactionSpendsLock(p)

SyncRecoversCell(d, lookupFails) ==
    /\ At(d, "match") /\ desk[d].pending = {}
    /\ \E p \in desk[d].cells :
         LET skip == \/ p \in desk[d].used
                     \/ IsInternalVaultChange(p, lookupFails) /\ ~desk[d].recover
         IN /\ First(p, desk[d].cells)
            /\ IF skip
               THEN Desks(d, [desk[d] EXCEPT !.cells = @ \ {p}]) /\ UNCHANGED fund
               ELSE /\ Len(fund) < MaxFunding
                    /\ fund' = Append(fund, PendingFunding(Capacity(p)))
                    /\ Desks(d, [desk[d] EXCEPT !.pc = "recovered", !.at = Len(fund) + 1])
    /\ UNCHANGED <<chain, pool, balance, source, spent>>

SyncCreditsRecovered(d) ==
    /\ At(d, "recovered")
    /\ \E p \in desk[d].cells :
         /\ First(p, desk[d].cells)
         /\ ApplyConfirmedFunding(desk[d].at, p)
         /\ Desks(d, IF ApplyThrows(desk[d].at, p) THEN IdleDesk
                     ELSE [desk[d] EXCEPT !.pc = "match", !.cells = @ \ {p}, !.at = 0,
                                          !.used = @ \cup {p}])
    /\ UNCHANGED <<chain, pool, spent>>

SyncEnds(d) ==
    /\ At(d, "match") /\ desk[d].pending = {} /\ desk[d].cells = {}
    /\ Desks(d, [IdleDesk EXCEPT !.pc = "overview"])
    /\ UNCHANGED <<chain, pool, fund, balance, source, spent>>

----------------------------------------------------------------------------
(* confirmWalletFundingRequest                                             *)
\* The first unused output of a transaction that is large enough.
FindVaultDepositInTransaction(p, tx, minimum) ==
    First(p, {q \in OutPoints \ UsedVaultOutPoints : q[1] = tx /\ Capacity(q) >= minimum})

ConfirmFindsDeposit(d, f, tx) ==
    /\ At(d, "idle")
    /\ fund[f].status = "pending"
    /\ \A g \in Confirmed : fund[g].proof # tx
    /\ \E p \in OutPoints :
         /\ FindVaultDepositInTransaction(p, tx, fund[f].amount)
         /\ Desks(d, [IdleDesk EXCEPT !.pc = "confirm", !.at = f, !.cells = {p}])
    /\ UNCHANGED <<chain, pool, fund, balance, source, spent>>

ConfirmCredits(d) ==
    /\ At(d, "confirm")
    /\ \E p \in desk[d].cells :
         /\ ApplyConfirmedFunding(desk[d].at, p)
         /\ Desks(d, IF ApplyThrows(desk[d].at, p) THEN IdleDesk
                     ELSE [IdleDesk EXCEPT !.pc = "overview"])
    /\ UNCHANGED <<chain, pool, spent>>

----------------------------------------------------------------------------
(* reconcileWalletBalanceWithCurrentVault, run by every overview and by    *)
(* the reconciliation sweep.  The limits of open passes are left out: the  *)
(* wallet here has none open while it is refreshed.                        *)
OpenOverview(d) ==
    /\ At(d, "idle") /\ Desks(d, [IdleDesk EXCEPT !.pc = "overview"])
    /\ UNCHANGED <<chain, pool, fund, balance, source, spent>>

OverviewReads(d) ==
    /\ At(d, "overview")
    /\ Desks(d, [IdleDesk EXCEPT !.pc = "refresh", !.funded = FundedMinor, !.spent = spent,
                                 !.amount = LiveCapacity])
    /\ UNCHANGED <<chain, pool, fund, balance, source, spent>>

\* Mutant: a shortfall is not clamped.
Unclamped(n) == n

Clamp(n) == IF n < 0 THEN 0 ELSE n
LedgerBalance(d) ==
    IF desk[d].funded > 0 THEN Clamp(desk[d].funded - desk[d].spent) ELSE balance
RefreshedBalance(d) ==
    IF desk[d].funded > 0 THEN Min({LedgerBalance(d), desk[d].amount})
    ELSE IF desk[d].amount > 0 THEN desk[d].amount ELSE balance

\* recordSecuredFundingBalance refreshes a source that exists.
RecordSecuredFundingBalance(live) ==
    source' = IF source.exists THEN [source EXCEPT !.locked = live] ELSE source

OverviewWrites(d) ==
    /\ At(d, "refresh")
    /\ RecordSecuredFundingBalance(desk[d].amount)
    /\ balance' = RefreshedBalance(d)
    /\ Desks(d, IdleDesk)
    /\ UNCHANGED <<chain, pool, fund, spent>>

OverviewWithoutIndexer(d) ==
    /\ At(d, "refresh")
    /\ balance' = LedgerBalance(d)
    /\ Desks(d, IdleDesk)
    /\ UNCHANGED <<chain, pool, fund, source, spent>>

----------------------------------------------------------------------------
(* executeVaultPlainTransfer: a payout, or a transfer that funds the       *)
(* Fiber node.  The indexer still lists a cell that a pooled transfer      *)
(* consumes; the node refuses to pool a second transfer of it.             *)
UpTo(p, cells) == {q \in cells : ~Before(p, q)}
Enough(points, amount) ==
    CapacityOf(points) = amount \/ CapacityOf(points) - amount >= MinCell

\* The shortest beginning of the list that is enough, if there is one.
SelectVaultCells(cells, amount) ==
    LET enough == {points \in {UpTo(p, cells) : p \in cells} : Enough(points, amount)}
    IN {points \in enough : \A more \in enough : points \subseteq more}

\* Mutant: the smallest change output is left to the miner.
ChangeAboveMinimum(total, amount) ==
    IF total - amount > MinCell THEN <<total - amount>> ELSE <<>>

ChangeOutputs(total, amount) == IF total > amount THEN <<total - amount>> ELSE <<>>

StartTransfer(d, amount) ==
    /\ At(d, "idle") /\ amount >= MinCell
    /\ Desks(d, [IdleDesk EXCEPT !.pc = "transfer", !.amount = amount,
                                 !.cells = ListLiveVaultCells])
    /\ UNCHANGED <<chain, pool, fund, balance, source, spent>>

NodeAccepts(inputs) == inputs \cap (SpentPoints \cup UNION {tx.inputs : tx \in pool}) = {}

SendTransfer(d) ==
    /\ At(d, "transfer")
    /\ \E selected \in SelectVaultCells(desk[d].cells, desk[d].amount) :
         /\ NodeAccepts(selected)
         /\ pool' = pool \cup {Transaction(ChangeOutputs(CapacityOf(selected), desk[d].amount),
                                           selected, desk[d].amount)}
    /\ Desks(d, [IdleDesk EXCEPT !.pc = "sent", !.amount = desk[d].amount])
    /\ UNCHANGED <<chain, fund, balance, source, spent>>

\* The payment is charged to the pass once the transfer was accepted.
ChargeTransfer(d) ==
    /\ At(d, "sent")
    /\ spent' = spent + desk[d].amount
    /\ Desks(d, IdleDesk)
    /\ UNCHANGED <<chain, pool, fund, balance, source>>

\* A request ends early: an RPC or a transaction fails, the fee wallet or the
\* vault has too little, or the process stops.
RequestFails(d) ==
    /\ desk[d].pc # "idle" /\ Desks(d, IdleDesk)
    /\ UNCHANGED <<chain, pool, fund, balance, source, spent>>

----------------------------------------------------------------------------
SyncNext(d) ==
    \/ SyncReadsRecords(d) \/ SyncListsCells(d) \/ SyncMatchesPending(d)
    \/ \E lookupFails \in BOOLEAN : SyncRecoversCell(d, lookupFails)
    \/ SyncCreditsRecovered(d) \/ SyncEnds(d)

ConfirmNext(d) ==
    \/ \E f \in DOMAIN fund, tx \in DOMAIN chain : ConfirmFindsDeposit(d, f, tx)
    \/ ConfirmCredits(d)

OverviewNext(d) ==
    \/ OpenOverview(d) \/ OverviewReads(d) \/ OverviewWrites(d) \/ OverviewWithoutIndexer(d)

TransferNext(d) ==
    \/ \E amount \in PayoutAmounts : StartTransfer(d, amount)
    \/ SendTransfer(d) \/ ChargeTransfer(d)

WalletFundingNext ==
    \/ \E outs \in Deposits : UserDeposits(outs)
    \/ \E tx \in pool : CommitTransfer(tx)
    \/ \E amount \in RequestAmounts : CreateWalletFundingRequest(amount)
    \/ \E d \in Desk : \/ SyncNext(d) \/ ConfirmNext(d) \/ OverviewNext(d)
                       \/ TransferNext(d) \/ RequestFails(d)

WalletFundingSpec == WalletFundingInit /\ [][WalletFundingNext]_vaultVars

----------------------------------------------------------------------------
\* The chain, the records and the requests hold values of their schemas, and every
\* request is at a step of its handler.
WalletFundingTypeOK ==
    /\ chain \in Seq(TransactionRecord) /\ pool \subseteq TransactionRecord
    /\ fund \in Seq(FundingRecord)
    /\ balance \in Nat /\ spent \in Nat
    /\ source \in [exists : BOOLEAN, locked : Nat]
    /\ desk \in [Desk -> DeskRecord]

\* However syncs and confirmations race, a vault output is credited to at most
\* one funding record, and for exactly the capacity it has on the chain
\* (walletFunding.service.ts applyConfirmedFunding).
DepositCreditedOnce ==
    \A f \in Confirmed :
        /\ fund[f].outPoint \in OutPoints /\ fund[f].amount = Capacity(fund[f].outPoint)
        /\ \A g \in Confirmed : fund[g].outPoint = fund[f].outPoint => g = f

\* A confirmed funding record keeps its proof and its amount for ever: a sync
\* that read it while it was pending cannot attach it to another deposit.
ConfirmedIsFinal ==
    [][\A f \in Confirmed : fund'[f] = fund[f]]_vaultVars

\* Transfers neither create nor lose vault capacity: what users deposited is
\* still in live vault cells or was paid out, although concurrent transfers
\* select their cells from the same stale list (selectVaultCells,
\* executeVaultPlainTransfer).
Deposited == {p \in OutPoints : ~IsInternal(chain[p[1]])}
PaidOut == Total([i \in DOMAIN chain |-> chain[i].paid])
VaultConserves == CapacityOf(Deposited) = LiveCapacity + PaidOut

\* The secured source never shows more locked value than the vault ever held:
\* docs/funding-sources-and-guarantees.md calls it proven value.
LockedIsDeposited ==
    source.locked <= CapacityOf(Deposited)

\* A deposit is credited once and for good, and transfers neither create nor lose
\* capacity of the vault.
VaultSound == []DepositCreditedOnce /\ []VaultConserves /\ ConfirmedIsFinal
=============================================================================
